---- MODULE Spec2Model ----
(***************************************************************************)
(* Artifact-synthesis pipeline of multiagent_system_updated:               *)
(*   src/core/packager.py    build_structured_zip and its helpers          *)
(*   src/core/validation.py  validate_contract_minimal                     *)
(*                                                                         *)
(* Text that the code takes apart (paths, file names) is a sequence of     *)
(* one-character strings.  Source text that the code only scans line by    *)
(* line is a sequence of lines, each line standing for the class of text   *)
(* lines on which all of the code's tests (regexes, `in`, startswith)      *)
(* agree.                                                                  *)
(***************************************************************************)
EXTENDS Integers, Sequences, FiniteSets, TLC

\* ------------------------------------------------------------------ bounds
MaxBlocks == 2      \* fenced blocks in the backend draft
MaxEndpoints == 2   \* endpoints of a generated contract (routing specification)
MaxItems == 2       \* entries of a contract's endpoints array (validation)
MaxId == 3          \* ids a generated server hands out before the model stops creating
MaxClock == 1       \* ticks of the wall clock
MaxCalls == 2       \* fetch calls in one script
MaxLines == 6       \* lines of a draft, lines of a block
MaxMentions == 2    \* mentions of a resource in the task text

\* ------------------------------------------------------------ text helpers
LowerLetters == {"a","b","c","d","e","f","g","h","i","j","k","l","m",
                 "n","o","p","q","r","s","t","u","v","w","x","y","z"}
UpperLetters == {"A","B","C","D","E","F","G","H","I","J","K","L","M",
                 "N","O","P","Q","R","S","T","U","V","W","X","Y","Z"}
Digits == {"0","1","2","3","4","5","6","7","8","9"}
Alnum == LowerLetters \cup UpperLetters \cup Digits

\* str.startswith / str.endswith / s[n:]
StartsWith(s, p) == Len(p) <= Len(s) /\ SubSeq(s, 1, Len(p)) = p
EndsWith(s, p) == Len(p) <= Len(s) /\ SubSeq(s, Len(s) - Len(p) + 1, Len(s)) = p
Drop(s, n) == SubSeq(s, n + 1, Len(s))

\* str.strip() on the whitespace this model's texts can hold
RECURSIVE LStrip(_)
LStrip(s) == IF s # <<>> /\ Head(s) = " " THEN LStrip(Tail(s)) ELSE s
RECURSIVE RStrip(_)
RStrip(s) == IF s # <<>> /\ s[Len(s)] = " " THEN RStrip(SubSeq(s, 1, Len(s) - 1)) ELSE s
Strip(s) == RStrip(LStrip(s))

\* str.replace(old, new): every non-overlapping occurrence, left to right
RECURSIVE Replace(_, _, _)
Replace(s, old, new) ==
  IF s = <<>> THEN <<>>
  ELSE IF StartsWith(s, old) THEN new \o Replace(Drop(s, Len(old)), old, new)
  ELSE <<Head(s)>> \o Replace(Tail(s), old, new)

\* s.split(sep)[0] and s.split(sep)[-1] for a one-character separator
RECURSIVE FirstPart(_, _)
FirstPart(s, sep) ==
  IF s = <<>> \/ Head(s) = sep THEN <<>> ELSE <<Head(s)>> \o FirstPart(Tail(s), sep)
RECURSIVE LastPart(_, _)
LastPart(s, sep) ==
  IF \E i \in DOMAIN s : s[i] = sep
  THEN LastPart(Drop(s, CHOOSE i \in DOMAIN s : s[i] = sep /\ \A j \in 1..(i - 1) : s[j] # sep), sep)
  ELSE s

\* str.upper() / str.lower() on the verbs a contract can carry
Upper(m) ==
  CASE m = "get" -> "GET" [] m = "post" -> "POST" [] m = "put" -> "PUT"
    [] m = "delete" -> "DELETE" [] m = "patch" -> "PATCH" [] OTHER -> m
Lower(m) ==
  CASE m = "GET" -> "get" [] m = "POST" -> "post" [] m = "PUT" -> "put"
    [] m = "DELETE" -> "delete" [] m = "PATCH" -> "patch" [] OTHER -> m

\* A call either returns a value or raises.
Ok(v) == [raised |-> FALSE, exc |-> "", val |-> v]
Raise(e) == [raised |-> TRUE, exc |-> e, val |-> <<>>]

\* ---------------------------------------------------------- contract values
\* A JSON scalar as the code probes it: absent key, null, a string, or a
\* truthy value that is not a string (a number).
Absent == [t |-> "absent", s |-> <<>>]
Null == [t |-> "null", s |-> <<>>]
Num == [t |-> "num", s |-> <<>>]
Str(s) == [t |-> "str", s |-> s]
\* a verb is kept whole: a string of one token
Verb(m) == [t |-> "str", s |-> <<m>>]

\* `x or default`
Truthy(v) == v.t = "num" \/ (v.t = "str" /\ v.s # <<>>)

\* An entry of the endpoints array: an object, null, or something that is no object.
\* `body` and `request` are the fields declared under those keys, name and type.
Endpoint(m, p) == [t |-> "obj", method |-> m, path |-> p, body |-> <<>>, request |-> <<>>]
EndpointWithBody(m, p, b) == [t |-> "obj", method |-> m, path |-> p, body |-> b, request |-> <<>>]
EndpointWithRequest(m, p, r) == [t |-> "obj", method |-> m, path |-> p, body |-> <<>>, request |-> r]
NullEntry == [t |-> "null", method |-> Absent, path |-> Absent, body |-> <<>>, request |-> <<>>]
NonObjectEntry == [t |-> "str", method |-> Absent, path |-> Absent, body |-> <<>>, request |-> <<>>]

NoEndpoints == [t |-> "absent", items |-> <<>>]
NullEndpoints == [t |-> "null", items |-> <<>>]
ScalarEndpoints == [t |-> "scalar", items |-> <<>>]
EndpointList(items) == [t |-> "list", items |-> items]

\* The `contract` argument: None, a dict, or a truthy value that is no dict.
NoneContract == [t |-> "none", base_url |-> Absent, endpoints |-> NoEndpoints, resources |-> <<>>]
EmptyContract == [t |-> "dict", base_url |-> Absent, endpoints |-> NoEndpoints, resources |-> <<>>]
NonDictContract == [t |-> "str", base_url |-> Absent, endpoints |-> NoEndpoints, resources |-> <<>>]
Contract(b, eps) == [t |-> "dict", base_url |-> b, endpoints |-> eps, resources |-> <<>>]

ApiBase == <<"/","a","p","i">>
ItemsName == <<"i","t","e","m","s">>
TasksName == <<"t","a","s","k","s">>
UsersName == <<"u","s","e","r","s">>
NameField == <<"n","a","m","e">>

\* The entries a `for e in c.get("endpoints", []) or []` loop visits.
EntriesOf(c) == IF c.endpoints.t = "list" THEN c.endpoints.items ELSE <<>>

\* (e or {}).get("method") or "GET", upper-cased; (e or {}).get("path") or ""
MethodOf(e) == IF e.t = "obj" /\ Truthy(e.method) THEN Upper(e.method.s[1]) ELSE "GET"
PathOf(e) == IF e.t = "obj" /\ Truthy(e.path) THEN e.path.s ELSE <<>>
\* .get on an entry that is no object, .upper()/.strip() on a value that is no string
BadEntry(e) == e.t = "str" \/ (e.t = "obj" /\ (e.method.t = "num" \/ e.path.t = "num"))

\* packager.py 1236-1244 (and its copy 1062-1070): the endpoints with a non-empty path
_contract_endpoints(c) ==
  IF c.endpoints.t = "scalar" THEN Raise("TypeError")
  ELSE IF \E i \in DOMAIN EntriesOf(c) : BadEntry(EntriesOf(c)[i]) THEN Raise("AttributeError")
  ELSE Ok(SelectSeq([i \in DOMAIN EntriesOf(c) |->
                       [method |-> MethodOf(EntriesOf(c)[i]), path |-> Strip(PathOf(EntriesOf(c)[i]))]],
                    LAMBDA e : e.path # <<>>))

\* packager.py 1246-1251 (and its copy 1072-1077)
_normalize_base(c, default) ==
  LET b == IF c.base_url.t = "str" /\ c.base_url.s # <<>> THEN c.base_url.s ELSE default
  IN IF StartsWith(b, <<"/">>) THEN b ELSE <<"/">> \o b

\* packager.py 986-999: the first path segment under base + "/"; <<>> stands for None
RECURSIVE _infer_resource_name_from_endpoints(_, _)
_infer_resource_name_from_endpoints(base, entries) ==
  IF entries = <<>> THEN <<>>
  ELSE LET e == Head(entries)
       IN IF e.t = "str" \/ (e.t = "obj" /\ e.path.t = "num") \/ base.t = "num" THEN <<>>
          ELSE IF StartsWith(PathOf(e), base.s \o <<"/">>)
                  /\ FirstPart(Drop(PathOf(e), Len(base.s) + 1), "/") # <<>>
               THEN FirstPart(Drop(PathOf(e), Len(base.s) + 1), "/")
               ELSE _infer_resource_name_from_endpoints(base, Tail(entries))

\* dict assignment body_types[k] = t: replace in place or append
PutField(acc, f) ==
  IF \E i \in DOMAIN acc : acc[i].name = f.name
  THEN [i \in DOMAIN acc |-> IF acc[i].name = f.name THEN f ELSE acc[i]]
  ELSE Append(acc, f)
RECURSIVE PutFields(_, _)
PutFields(acc, fs) == IF fs = <<>> THEN acc ELSE PutFields(PutField(acc, Head(fs)), Tail(fs))

\* packager.py 1007-1021: body types of POST /<name>; an exception ends the loop
RECURSIVE BodyTypes(_, _, _, _)
BodyTypes(entries, base, name, acc) ==
  IF entries = <<>> THEN acc
  ELSE LET e == Head(entries)
           p == PathOf(e)
           rel0 == IF StartsWith(p, base.s)
                   THEN (IF Drop(p, Len(base.s)) = <<>> THEN <<"/">> ELSE Drop(p, Len(base.s)))
                   ELSE p
           rel == IF StartsWith(rel0, <<"/">>) THEN rel0 ELSE <<"/">> \o rel0
       IN IF BadEntry(e) \/ base.t = "num" THEN acc
          ELSE IF MethodOf(e) = "POST" /\ rel = <<"/">> \o name
               THEN BodyTypes(Tail(entries), base, name, PutFields(acc, e.body))
               ELSE BodyTypes(Tail(entries), base, name, acc)

FieldType(t) ==
  IF t \in {"int", "integer", "number", "float", "double"} THEN "number"
  ELSE IF t \in {"bool", "boolean"} THEN "boolean" ELSE "string"

\* packager.py 1001-1031
_derive_schema_from_contract(c) ==
  LET base == IF Truthy(c.base_url) THEN c.base_url ELSE Str(ApiBase)
      entries == IF c.endpoints.t = "scalar" THEN <<NonObjectEntry>> ELSE EntriesOf(c)
      inferred == _infer_resource_name_from_endpoints(base, entries)
      name == IF inferred # <<>> THEN inferred ELSE ItemsName
      body_types == BodyTypes(entries, base, name, <<>>)
      schema == IF body_types # <<>>
                THEN [i \in DOMAIN body_types |->
                        [name |-> body_types[i].name, type |-> FieldType(body_types[i].type), required |-> TRUE]]
                ELSE <<[name |-> NameField, type |-> "string", required |-> TRUE]>>
  IN <<[name |-> name, schema |-> schema]>>

\* packager.py 1033-1043: dict(contract or {}) and the derived resources
Enrich(c) ==
  IF c.t = "str" THEN Raise("ValueError")
  ELSE LET d == IF c.t = "none" THEN EmptyContract ELSE c
       IN Ok([d EXCEPT !.resources = _derive_schema_from_contract(d)])

\* packager.py 1268-1283 (flask, spring: default 'items'), 1373-1388 (express: 'tasks')
MainResource(eps, base_url, default) ==
  LET hits == {i \in DOMAIN eps : StartsWith(eps[i].path, base_url \o <<"/">>)}
      first == eps[CHOOSE i \in hits : \A j \in hits : i <= j].path
      name == FirstPart(Drop(first, Len(base_url) + 1), "/")
  IN IF hits = {} \/ name = <<>> THEN default ELSE name

\* re ^[A-Za-z][A-Za-z0-9_]{0,30}$
ValidFieldName(x) ==
  /\ x # <<>> /\ Len(x) <= 31
  /\ Head(x) \in LowerLetters \cup UpperLetters
  /\ \A i \in DOMAIN x : x[i] \in Alnum \cup {"_"}

\* packager.py 1288-1303 (flask), 1390-1405 (express), 1587-1602 (spring)
RequiredFields(c, resource_name) ==
  LET rs == c.resources
      same == {i \in DOMAIN rs : rs[i].name = resource_name}
      schema == IF rs = <<>> THEN <<>>
                ELSE IF same # {} THEN rs[CHOOSE i \in same : \A j \in same : i <= j].schema
                ELSE rs[1].schema
      required == SelectSeq(schema, LAMBDA f : f.required)
      valid == SelectSeq([i \in DOMAIN required |-> required[i].name], ValidFieldName)
  IN IF valid = <<>> THEN <<NameField>> ELSE valid

\* ------------------------------------------------------------ emitted text
\* A line of an emitted file: its kind k, and for a route registration the
\* verb m, the path a and the handler h the line binds.
\* f is the name of the function or method a generated handler is given.
Ln(k) == [k |-> k, m |-> "", h |-> "", a |-> <<>>, f |-> <<>>]
LnA(k, a) == [k |-> k, m |-> "", h |-> "", a |-> a, f |-> <<>>]
Route(m, p, h) == [k |-> "route", m |-> m, h |-> h, a |-> p, f |-> <<>>]
NamedRoute(m, p, h, f) == [k |-> "route", m |-> m, h |-> h, a |-> p, f |-> f]

IdColon == <<"/",":","i","d">>
IdBrace == <<"/","{","i","d","}">>
IdAngle == <<"/","<","i","d",">">>

\* rel of packager.py 1310-1314 and 1610-1614: the path below base_url
RelPath(p, base_url) ==
  LET rel == IF StartsWith(p, base_url)
             THEN (IF Drop(p, Len(base_url)) = <<>> THEN <<"/">> ELSE Drop(p, Len(base_url)))
             ELSE p
  IN IF StartsWith(rel, <<"/">>) THEN rel ELSE <<"/">> \o rel

ItemVariants(resource_name) ==
  {<<"/">> \o resource_name \o IdColon, <<"/">> \o resource_name \o IdBrace,
   <<"/">> \o resource_name \o IdAngle}

\* str.strip(ch) for one character
RECURSIVE StripChar(_, _)
StripChar(s, ch) ==
  IF s # <<>> /\ Head(s) = ch THEN StripChar(Tail(s), ch)
  ELSE IF s # <<>> /\ s[Len(s)] = ch THEN StripChar(SubSeq(s, 1, Len(s) - 1), ch)
  ELSE s

\* re.sub(r'[^a-z0-9]+', '_', s): every run of other characters becomes one _
RECURSIVE Slug(_, _)
Slug(s, in_run) ==
  IF s = <<>> THEN <<>>
  ELSE IF Head(s) \in LowerLetters \cup Digits THEN <<Head(s)>> \o Slug(Tail(s), FALSE)
  ELSE (IF in_run THEN <<>> ELSE <<"_">>) \o Slug(Tail(s), TRUE)

\* m.lower() of the verbs an endpoint list can carry
VerbText(m) ==
  CASE m = "GET" -> <<"g","e","t">>
    [] m = "POST" -> <<"p","o","s","t">>
    [] m = "PUT" -> <<"p","u","t">>
    [] m = "DELETE" -> <<"d","e","l","e","t","e">>
    [] OTHER -> <<m>>

\* packager.py 1318 and 1618: ep_<verb>_<path with its punctuation turned into _>
HandlerName(m, rel) ==
  LET slug == StripChar(Slug(StripChar(rel, "/"), FALSE), "_")
  IN <<"e","p","_">> \o VerbText(m) \o <<"_">> \o (IF slug = <<>> THEN <<"r","o","o","t">> ELSE slug)

\* packager.py 1307-1351: one @main.route line and its handler per endpoint
FlaskRoute(e, base_url, resource_name) ==
  LET rel == RelPath(e.path, base_url)
      rel_flask == Replace(Replace(rel, IdColon, IdAngle), IdBrace, IdAngle)
      h == IF rel = <<"/">> \o resource_name /\ e.method = "GET" THEN "list"
           ELSE IF rel = <<"/">> \o resource_name /\ e.method = "POST" THEN "create"
           ELSE IF rel \in ItemVariants(resource_name) /\ e.method = "PUT" THEN "update"
           ELSE IF rel \in ItemVariants(resource_name) /\ e.method = "DELETE" THEN "delete"
           ELSE "ok"
  IN NamedRoute(e.method, rel_flask, h, HandlerName(e.method, rel_flask))

\* packager.py 1285-1352: backend/app/main.py generated from the contract
FlaskMainFromContract(c, eps, base_url) ==
  LET resource_name == MainResource(eps, base_url, ItemsName)
  IN <<Ln("import"), LnA("blueprint", base_url),
       LnA("required", RequiredFields(c, resource_name)), Ln("items"), Ln("current_id")>>
     \o [i \in DOMAIN eps |-> FlaskRoute(eps[i], base_url, resource_name)]

\* packager.py 1354-1357: backend/app/main.py when the contract has no endpoint
FlaskMainDefault ==
  <<Ln("import"), LnA("blueprint", ApiBase), Route("GET", <<"/">> \o TasksName, "stub_list")>>

\* packager.py 1261-1264: backend/app/__init__.py, the shared app and /health
FlaskInit ==
  <<Ln("import"), Ln("flask_inst"), Route("GET", <<"/","h","e","a","l","t","h">>, "health"),
    Ln("register_blueprints")>>

\* path_full of packager.py 1414-1420
ExpressFullPath(p, base_url) ==
  LET path == IF StartsWith(p, <<"/">>) THEN p ELSE <<"/">> \o p
  IN IF ~StartsWith(path, base_url)
     THEN base_url \o (IF path # <<"/">> THEN path ELSE <<>>)
     ELSE path

\* packager.py 1413-1443: one app.<verb>(...) line per endpoint
ExpressRoute(e, base_url, resource_name) ==
  LET m == Lower(e.method)
      path_full == ExpressFullPath(e.path, base_url)
      coll == base_url \o <<"/">> \o resource_name
      item == coll \o IdColon
      h == IF path_full = coll /\ m = "get" THEN "list"
           ELSE IF path_full = coll /\ m = "post" THEN "create"
           ELSE IF path_full = item /\ m = "put" THEN "update"
           ELSE IF path_full = item /\ m = "delete" THEN "delete"
           ELSE "ok"
  IN Route(m, path_full, h)

LowerAlphabet == <<"a","b","c","d","e","f","g","h","i","j","k","l","m",
                   "n","o","p","q","r","s","t","u","v","w","x","y","z">>
UpperAlphabet == <<"A","B","C","D","E","F","G","H","I","J","K","L","M",
                   "N","O","P","Q","R","S","T","U","V","W","X","Y","Z">>
\* str.lower() on a character sequence
LowerText(s) ==
  [i \in DOMAIN s |-> IF s[i] \in UpperLetters
                      THEN LowerAlphabet[CHOOSE j \in 1..26 : UpperAlphabet[j] = s[i]]
                      ELSE s[i]]

TodoNames == {TasksName, <<"t","o","d","o","s">>, <<"t","o","d","o">>, <<"t","a","r","e","f","a","s">>}

\* packager.py 1444-1464: the handlers added when the loop registered none of their kind
ExpressFallbacks(routes, task, base_url, resource_name) ==
  LET coll2 == base_url \o <<"/">> \o resource_name
      item2 == coll2 \o <<":","i","d">>
      is_todo_expr == (LowerText(resource_name) \in TodoNames /\ ~task.crud) \/ (task.todo /\ ~task.crud)
      has(h) == \E i \in DOMAIN routes : routes[i].h = h
  IN (IF has("list") THEN <<>> ELSE <<Route("get", coll2, "list")>>)
     \o (IF has("create") THEN <<>>
         ELSE <<Route("post", coll2, IF is_todo_expr THEN "create_todo" ELSE "create")>>)
     \o (IF has("update") THEN <<>>
         ELSE <<Route("put", item2, IF is_todo_expr THEN "update_todo" ELSE "update")>>)
     \o (IF has("delete") THEN <<>> ELSE <<Route("delete", item2, "delete")>>)

HealthPath == <<"/","h","e","a","l","t","h">>

\* packager.py 1362-1466: backend/src/index.js generated from the contract
ExpressIndexFromContract(c, eps, base_url, task) ==
  LET resource_name == MainResource(eps, base_url, TasksName)
      routes == [i \in DOMAIN eps |-> ExpressRoute(eps[i], base_url, resource_name)]
  IN <<Ln("require"), Ln("express_inst"), Route("get", HealthPath, "health"),
       LnA("resource", resource_name), LnA("required", RequiredFields(c, resource_name)),
       Ln("items"), Ln("current_id")>>
     \o routes \o ExpressFallbacks(routes, task, base_url, resource_name)
     \o <<Ln("app_listen")>>

\* packager.py 224-279: the fixed CRUD server for `resource`
_build_express_crud(resource) ==
  LET coll == ApiBase \o <<"/">> \o resource
  IN <<Ln("require"), Ln("express_inst"), Route("get", HealthPath, "health"),
       Ln("items"), Ln("current_id"),
       Route("get", coll, "crud_list"), Route("post", coll, "crud_create"),
       Route("put", coll \o IdColon, "crud_update"), Route("delete", coll \o IdColon, "crud_delete"),
       Ln("app_listen")>>

\* packager.py 1607-1647: one mapping per endpoint.  The POST branch builds its
\* line from the Python name k, which build_structured_zip never binds.
SpringRoute(e, base, resource_name) ==
  LET rel == RelPath(e.path, base)
      spring_rel == Replace(Replace(rel, IdColon, IdBrace), IdAngle, IdBrace)
      func == HandlerName(e.method, spring_rel)
  IN IF rel = <<"/">> \o resource_name /\ e.method = "GET"
       THEN NamedRoute("GET", <<"/">> \o resource_name, "list", func)
     ELSE IF rel = <<"/">> \o resource_name /\ e.method = "POST"
       THEN NamedRoute("POST", <<"/">> \o resource_name, "create", func)
     ELSE IF rel \in ItemVariants(resource_name) /\ e.method = "PUT"
       THEN NamedRoute("PUT", spring_rel, "update", func)
     ELSE IF rel \in ItemVariants(resource_name) /\ e.method = "DELETE"
       THEN NamedRoute("DELETE", spring_rel, "delete", func)
     ELSE NamedRoute("ANY", spring_rel, "ok", func)

\* packager.py 1559-1649: controller/ApiController.java generated from the contract
SpringControllerFromContract(c, eps, base) ==
  LET resource_name == MainResource(eps, base, ItemsName)
      routes == [i \in DOMAIN eps |-> SpringRoute(eps[i], base, resource_name)]
  IN IF \E i \in DOMAIN routes : routes[i].h = "create"
     THEN Raise("NameError")
     ELSE Ok(<<Ln("package"), Ln("import"), Ln("rest_controller"), LnA("request_mapping", base),
               LnA("required", RequiredFields(c, resource_name)), Ln("items"), Ln("current_id")>>
             \o routes)

\* packager.py 1651-1662: controller/HealthController.java
SpringHealthController ==
  <<Ln("package"), Ln("import"), Ln("rest_controller"), Route("GET", HealthPath, "health")>>

\* packager.py 1523-1538 and 1830-1845: the bootstrap class
SpringBootstrap(scan_base) ==
  <<Ln("package"), Ln("import"), LnA("sba", scan_base), Ln("public_class"), Ln("spring_run")>>

\* ------------------------------------------------------- model-provided text
\* A fenced block as _extract_code_blocks returns it: language tag, file name
\* (<<>> for None) and content, a sequence of lines.
Block(lang, fn, content) == [language |-> lang, filename |-> fn, content |-> content]

HasLine(content, kinds) == \E i \in DOMAIN content : content[i].k \in kinds

\* packager.py 74-88: public class / class X / import x; / three annotations
_looks_like_java(content) ==
  HasLine(content, {"public_class", "py_class", "jimport", "jimport_javax", "sba",
                    "rest_controller", "request_mapping"})

\* packager.py 97-118: the line filter of _sanitize_flask_python
RECURSIVE FlaskKeep(_, _)
FlaskKeep(lines, skip_block) ==
  IF lines = <<>> THEN <<>>
  ELSE LET ln == Head(lines)
       IN IF ln.k = "main_guard" THEN FlaskKeep(Tail(lines), TRUE)
          ELSE IF skip_block
            THEN FlaskKeep(Tail(lines), ~(ln.k = "blank" \/ ln.k \notin {"app_run_ind", "code_ind"}))
          ELSE IF ln.k \in {"app_run", "app_run_ind", "flask_inst"} THEN FlaskKeep(Tail(lines), FALSE)
          ELSE <<ln>> \o FlaskKeep(Tail(lines), FALSE)

\* packager.py 127-132: behind the last match of the import pattern, else in
\* front.  The pattern ends at the first imported name: a line that imports a
\* list of names is cut in two there; the text put in brings a line end of
\* its own, which leaves an empty line when more lines follow.
InsertSharedImport(lines) ==
  LET imports == {i \in DOMAIN lines : lines[i].k \in {"import", "import_list"}}
      last == CHOOSE i \in imports : \A j \in imports : j <= i
      put == IF lines[last].k = "import_list"
             THEN <<Ln("import_cut"), Ln("import_shared_app"), Ln("import_rest")>>
             ELSE IF last = Len(lines) THEN <<lines[last], Ln("import_shared_app")>>
             ELSE <<lines[last], Ln("import_shared_app"), Ln("blank")>>
  IN IF imports = {} THEN <<Ln("import_shared_app")>> \o lines
     ELSE SubSeq(lines, 1, last - 1) \o put \o Drop(lines, last)

\* packager.py 91-133
_sanitize_flask_python(content) ==
  LET sanitized == FlaskKeep(content, FALSE)
      uses_app_routes == HasLine(sanitized, {"app_route"})
      defines_blueprint == HasLine(sanitized, {"blueprint"})
      instantiates_flask == HasLine(sanitized, {"flask_inst_args"})
  IN IF (uses_app_routes \/ instantiates_flask) /\ ~defines_blueprint
        /\ ~HasLine(sanitized, {"import_shared_app"})
     THEN InsertSharedImport(sanitized)
     ELSE sanitized

\* ln.count("{") - ln.count("}") of a JavaScript line
BraceDelta(ln) ==
  CASE ln.k \in {"listen_open", "require_main", "block_open"} -> 1
    [] ln.k \in {"close_brace", "close_call"} -> -1
    [] OTHER -> 0

\* packager.py 141-159: the line filter of _sanitize_express_js
RECURSIVE ExpressKeep(_, _, _)
ExpressKeep(lines, skipping_main, brace_depth) ==
  IF lines = <<>> THEN <<>>
  ELSE LET ln == Head(lines)
       IN IF skipping_main
            THEN ExpressKeep(Tail(lines), brace_depth + BraceDelta(ln) > 0, brace_depth + BraceDelta(ln))
          ELSE IF ln.k = "require_main" THEN ExpressKeep(Tail(lines), TRUE, 0)
          ELSE IF ln.k \in {"app_listen", "listen_open"} THEN ExpressKeep(Tail(lines), FALSE, brace_depth)
          ELSE <<ln>> \o ExpressKeep(Tail(lines), FALSE, brace_depth)

RECURSIVE SumBraces(_)
SumBraces(lines) == IF lines = <<>> THEN 0 ELSE BraceDelta(Head(lines)) + SumBraces(Tail(lines))

\* packager.py 163-165: closing braces left over at the end of the file
RECURSIVE TrimBraces(_)
TrimBraces(lines) ==
  IF lines # <<>> /\ lines[Len(lines)].k = "close_brace" /\ SumBraces(lines) < 0
  THEN TrimBraces(SubSeq(lines, 1, Len(lines) - 1))
  ELSE lines

\* packager.py 136-166
_sanitize_express_js(content) == TrimBraces(ExpressKeep(content, FALSE, 0))

\* the line starts with package/import/@/public/class/interface/enum or a comment
JavaCodeStart(ln) ==
  ln.k \in {"package", "jimport", "jimport_javax", "sba", "rest_controller", "request_mapping",
            "entity", "service", "repository", "public_class", "py_class"}

\* packager.py 281-299: drop the prose in front of the first code line; javax -> jakarta
_sanitize_java(content) ==
  LET starts == {i \in DOMAIN content : JavaCodeStart(content[i])}
      start_idx == IF starts = {} THEN 1 ELSE CHOOSE i \in starts : \A j \in starts : i <= j
      cleaned == SubSeq(content, start_idx, Len(content))
  IN [i \in DOMAIN cleaned |-> IF cleaned[i].k = "jimport_javax" THEN Ln("jimport") ELSE cleaned[i]]

ServerPartName == <<"S","e","r","v","e","r","P","a","r","t">>

\* packager.py 1700-1725: package (a sequence of segments) and class name
_java_path_and_name(content, group_id) ==
  LET main == HasLine(content, {"sba"})
      by_annotation ==
        IF main THEN group_id
        ELSE IF HasLine(content, {"rest_controller"}) THEN group_id \o <<"controller">>
        ELSE IF HasLine(content, {"entity"}) THEN group_id \o <<"model">>
        ELSE IF HasLine(content, {"service"}) THEN group_id \o <<"service">>
        ELSE IF HasLine(content, {"repository"}) THEN group_id \o <<"repository">>
        ELSE group_id \o <<"controller">>
      classes == {i \in DOMAIN content : content[i].k = "public_class"}
      stop == IF classes = {} THEN Len(content) ELSE CHOOSE i \in classes : \A j \in classes : i <= j
      pkgs == {i \in 1..stop : content[i].k = "package"}
      pkg == IF pkgs = {} \/ main THEN by_annotation
             ELSE content[CHOOSE i \in pkgs : \A j \in pkgs : j <= i].a
      cls == IF classes = {} THEN ServerPartName ELSE content[stop].a
  IN [pkg_path |-> pkg, cls |-> cls]

DotJava == <<".","j","a","v","a">>
WordChars == Alnum \cup {"_"}
KeepWordChars(s) == SelectSeq(s, LAMBDA ch : ch \in WordChars)

\* packager.py 361-371
_sanitize_java_filename(fn, fallback_class) ==
  LET base0 == IF fn = <<>> \/ ~EndsWith(LowerText(fn), DotJava) THEN fallback_class
               ELSE SubSeq(fn, 1, Len(fn) - 5)
      base == IF KeepWordChars(base0) = <<>> THEN fallback_class ELSE KeepWordChars(base0)
  IN base \o DotJava

\* packager.py 350-358, 374-387: the extension of a language tag
_lang_ext(lang) ==
  CASE lang \in {"python", "py"} -> <<"p","y">>
    [] lang \in {"javascript", "js"} -> <<"j","s">>
    [] lang \in {"typescript", "ts"} -> <<"t","s">>
    [] lang = "java" -> <<"j","a","v","a">>
    [] lang \in {"yaml", "yml"} -> <<"y","m","l">>
    [] lang \in {"xml", "pom"} -> <<"x","m","l">>
    [] lang = "json" -> <<"j","s","o","n">>
    [] lang \in {"bash", "sh"} -> <<"s","h">>
    [] lang = "html" -> <<"h","t","m","l">>
    [] lang = "css" -> <<"c","s","s">>
    [] lang \in {"", "txt", "text", "md", "markdown", "plain"} -> <<"t","x","t">>

\* name.rsplit('.', 1)[0]
BeforeLastDot(name) ==
  LET dots == {i \in DOMAIN name : name[i] = "."}
  IN IF dots = {} THEN name ELSE SubSeq(name, 1, (CHOOSE i \in dots : \A j \in dots : j <= i) - 1)

\* packager.py 502-524, force_ext = True as at every call
_sanitize_generic_filename(lang, fn, fallback_base) ==
  LET name0 == Strip(IF fn = <<>> THEN fallback_base ELSE fn)
      name1 == LastPart(Replace(name0, <<"\\">>, <<"/">>), "/")
      name == IF StartsWith(name1, <<"-">>) \/ ~\E i \in DOMAIN name1 : name1[i] \in Alnum
              THEN fallback_base ELSE name1
      base == IF KeepWordChars(BeforeLastDot(name)) = <<>> THEN fallback_base
              ELSE KeepWordChars(BeforeLastDot(name))
  IN base \o <<".">> \o _lang_ext(lang)

DigitChars == <<"1","2","3","4","5","6","7","8","9">>
\* f"routes_{i}", f"server_part_{i}"
RoutesFallback(i) == <<"r","o","u","t","e","s","_">> \o <<DigitChars[i]>>
ServerPartFallback(i) == <<"s","e","r","v","e","r","_","p","a","r","t","_">> \o <<DigitChars[i]>>

\* ------------------------------------------------- build_structured_zip
VARIABLES
  args,     \* the call's arguments: preset, contract, task, front, back, qa
  call,     \* the call's position and locals
  files,    \* the entries written to the archive so far, in order
  clock,    \* the wall clock zipfile stamps entries with
  prev,     \* the archive a first call with the same arguments returned
  server,   \* a generated server at run time
  check     \* a call of validate_contract_minimal

vars == <<args, call, files, clock, prev, server, check>>

Presets == {"flask", "express", "spring"}

\* group_id = "com.example" and project_name = "projeto", the defaults of the
\* signature (packager.py 931); app_name of 1520 is then ProjetoApplication
GroupId == <<"com", "example">>
AppClassName == <<"P","r","o","j","e","t","o","A","p","p","l","i","c","a","t","i","o","n">>

ReadmeName == <<"R","E","A","D","M","E",".","m","d">>
ContractName == <<"a","p","i","_","c","o","n","t","r","a","c","t",".","j","s","o","n">>
PomName == <<"p","o","m",".","x","m","l">>
InitPyName == <<"_","_","i","n","i","t","_","_",".","p","y">>
MainPyName == <<"m","a","i","n",".","p","y">>
IndexJsName == <<"i","n","d","e","x",".","j","s">>
AppYmlName == <<"a","p","p","l","i","c","a","t","i","o","n",".","y","m","l">>
JavaRoot == <<"backend", "src", "main", "java">>

\* zf.writestr(path, content): one more entry, stamped with the current time
Entry(dir, name, content) == [dir |-> dir, name |-> name, content |-> content, mtime |-> clock]

Goto(pc) == [call EXCEPT !.pc = pc]
Raised(e) == [call EXCEPT !.pc = "raised", !.exc = e]

\* packager.py 939-983
WriteReadme ==
  /\ call.pc = "readme"
  /\ files' = Append(files, Entry(<<>>, ReadmeName, <<LnA("readme", <<args.preset>>)>>))
  /\ call' = Goto("contract")
  /\ UNCHANGED <<args, clock, prev, server, check>>

\* packager.py 1033-1043
EnrichContract ==
  /\ call.pc = "contract"
  /\ IF Enrich(args.contract).raised
     THEN /\ call' = Raised(Enrich(args.contract).exc)
          /\ files' = files
     ELSE /\ call' = [call EXCEPT !.pc = "front", !.contract = Enrich(args.contract).val]
          /\ files' = Append(files, Entry(<<"docs">>, ContractName, <<Ln("contract_json")>>))
  /\ UNCHANGED <<args, clock, prev, server, check>>

\* packager.py 1082-1096: the first path segment of the first endpoint that
\* has one, the base cut off; <<>> stands for None
RECURSIVE _discover_front_resource(_, _)
_discover_front_resource(endpoints, base_front) ==
  IF endpoints = <<>> THEN <<>>
  ELSE LET p == Head(endpoints).path
           rel0 == IF StartsWith(p, base_front)
                   THEN (IF Drop(p, Len(base_front)) = <<>> THEN <<"/">> ELSE Drop(p, Len(base_front)))
                   ELSE p
           rel == IF StartsWith(rel0, <<"/">>) THEN rel0 ELSE <<"/">> \o rel0
           name == FirstPart(Drop(rel, 1), "/")
       IN IF name # <<>> /\ \A i \in DOMAIN name : name[i] \in Alnum \cup {"_", "-"}
          THEN name
          ELSE _discover_front_resource(Tail(endpoints), base_front)

\* packager.py 1150, 1178: (res_info or {"name":"tasks"}).get("name") or "tasks"
FrontResourceName(c) ==
  LET name == _discover_front_resource(_contract_endpoints(c).val, _normalize_base(c, ApiBase))
  IN IF name = <<>> THEN TasksName ELSE name

\* packager.py 1135-1148: the schema of the resource of that name, else of the
\* first resource
FrontSchemaList(c) ==
  LET rs == c.resources
      name == _discover_front_resource(_contract_endpoints(c).val, _normalize_base(c, ApiBase))
      same == {i \in DOMAIN rs : name # <<>> /\ rs[i].name = name}
  IN IF rs = <<>> THEN <<>>
     ELSE IF same # {} THEN rs[CHOOSE i \in same : \A j \in same : i <= j].schema
     ELSE rs[1].schema

\* packager.py 1178-1185 (and its copy 1150-1158)
IsTodoRendering(c, task) ==
  LET has_bool == \E i \in DOMAIN FrontSchemaList(c) : FrontSchemaList(c)[i].type = "boolean"
      crud_in_task == task.crud
      todo_triggers == task.todo
      is_todo_by_task == todo_triggers /\ ~crud_in_task
  IN has_bool \/ is_todo_by_task \/ (FrontResourceName(c) \in TodoNames /\ ~crud_in_task)

\* packager.py 1186-1228: the checklist script or the tabular one
ClientScript(c, task) ==
  <<Ln(IF IsTodoRendering(c, task) THEN "checklist_script" ELSE "crud_script")>>

\* packager.py 1046-1234 with include_front = True: the three client files
\* are always regenerated, the raw draft is kept when there is one
WriteFrontend ==
  /\ call.pc = "front"
  /\ IF _contract_endpoints(call.contract).raised
     THEN /\ call' = Raised(_contract_endpoints(call.contract).exc)
          /\ files' = files
     ELSE /\ call' = Goto("scaffold")
          /\ files' = files
               \o <<Entry(<<"frontend">>, <<"i","n","d","e","x",".","h","t","m","l">>, <<Ln("markup")>>),
                    Entry(<<"frontend">>, <<"s","t","y","l","e","s",".","c","s","s">>, <<Ln("style")>>),
                    Entry(<<"frontend">>, <<"s","c","r","i","p","t",".","j","s">>, ClientScript(call.contract, args.task))>>
               \o (IF args.front THEN <<Entry(<<"frontend">>,
                        <<"F","R","O","N","T","_","R","A","W",".","m","d">>, <<Ln("raw")>>)>> ELSE <<>>)
  /\ UNCHANGED <<args, clock, prev, server, check>>

Eps == _contract_endpoints(call.contract).val

\* packager.py 1265-1357, 1362-1472, 1559-1662: the routing file each preset
\* scaffolds for the enriched contract c
FlaskMain(c) ==
  LET eps == _contract_endpoints(c).val
  IN IF eps # <<>> THEN FlaskMainFromContract(c, eps, _normalize_base(c, ApiBase)) ELSE FlaskMainDefault
ExpressIndex(c, task) ==
  LET eps == _contract_endpoints(c).val
  IN IF eps # <<>> THEN ExpressIndexFromContract(c, eps, _normalize_base(c, ApiBase), task)
     ELSE _build_express_crud(UsersName)
SpringController(c) ==
  LET eps == _contract_endpoints(c).val
  IN IF eps # <<>> THEN SpringControllerFromContract(c, eps, _normalize_base(c, ApiBase))
     ELSE Ok(SpringHealthController)

\* re.search(r"backend/app/main\.py", back, re.IGNORECASE): the draft names the file
MainPyPath == <<"b","a","c","k","e","n","d","/","a","p","p","/","m","a","i","n",".","p","y">>
Contains(s, sub) == \E i \in 0..(Len(s) - Len(sub)) : SubSeq(s, i + 1, i + Len(sub)) = sub
MentionsMainPy(back) ==
  \E i \in DOMAIN back.blocks : Contains(LowerText(back.blocks[i].filename), MainPyPath)

\* packager.py 1257-1357
ScaffoldFlask ==
  /\ call.pc = "scaffold" /\ args.preset = "flask"
  /\ files' = files
       \o <<Entry(<<"backend">>, <<"r","e","q","u","i","r","e","m","e","n","t","s",".","t","x","t">>, <<Ln("requirements")>>),
            Entry(<<"backend">>, <<".","f","l","a","s","k","e","n","v">>, <<Ln("flaskenv")>>),
            Entry(<<"backend", "app">>, InitPyName, FlaskInit)>>
       \o (IF MentionsMainPy(args.back) THEN <<>>
           ELSE <<Entry(<<"backend", "app">>, MainPyName, FlaskMain(call.contract))>>)
  /\ call' = Goto("back")
  /\ UNCHANGED <<args, clock, prev, server, check>>

\* packager.py 1358-1472; the drafts of this model carry no path fragment or
\* CRUD idiom, so _infer_resource (181-222) returns its default, users
ScaffoldExpress ==
  /\ call.pc = "scaffold" /\ args.preset = "express"
  /\ files' = files
       \o <<Entry(<<"backend">>, <<"p","a","c","k","a","g","e",".","j","s","o","n">>, <<Ln("package_json")>>),
            Entry(<<"backend", "src">>, IndexJsName, ExpressIndex(call.contract, args.task))>>
  /\ call' = Goto("back")
  /\ UNCHANGED <<args, clock, prev, server, check>>

\* packager.py 1473-1684
ScaffoldSpring ==
  /\ call.pc = "scaffold" /\ args.preset = "spring"
  /\ LET first == <<Entry(<<"backend">>, PomName, <<Ln("pom_project")>>),
                    Entry(JavaRoot \o GroupId, AppClassName \o DotJava, SpringBootstrap(SubSeq(GroupId, 1, 2))),
                    Entry(<<"backend", "src", "main", "resources">>, AppYmlName, <<Ln("yaml")>>)>>
         ctrl == SpringController(call.contract)
         cors == Entry(JavaRoot \o GroupId \o <<"config">>,
                       <<"C","o","r","s","C","o","n","f","i","g">> \o DotJava, <<Ln("cors_config")>>)
     IN IF ctrl.raised
        THEN /\ files' = files \o first
             /\ call' = Raised(ctrl.exc)
        ELSE /\ files' = files \o first
                  \o <<Entry(JavaRoot \o GroupId \o <<"controller">>,
                              (IF Eps # <<>> THEN <<"A","p","i","C","o","n","t","r","o","l","l","e","r">>
                               ELSE <<"H","e","a","l","t","h","C","o","n","t","r","o","l","l","e","r">>) \o DotJava,
                              ctrl.val)>>
                  \o <<cors>>
             /\ call' = Goto("back")
  /\ UNCHANGED <<args, clock, prev, server, check>>

\* packager.py 1686-1698, 1727-1730: the raw draft, the contract blocks, the flags
BackRawName == <<"B","A","C","K","_","R","A","W",".","m","d">>
IsContractBlock(b) ==
  \/ LowerText(b.filename) = ContractName
  \/ b.language = "json" /\ HasLine(b.content, {"json_contract"})

RECURSIVE ContractBlockEntries(_)
ContractBlockEntries(blocks) ==
  IF blocks = <<>> THEN <<>>
  ELSE (IF IsContractBlock(Head(blocks))
        THEN <<Entry(<<"docs">>, ContractName, Head(blocks).content)>> ELSE <<>>)
       \o ContractBlockEntries(Tail(blocks))

AfterBlock(i) ==
  IF i >= Len(args.back.blocks) THEN "fallback" ELSE "blocks"

BeginBackend ==
  /\ call.pc = "back"
  /\ IF ~args.back.text
     THEN /\ files' = files
          /\ call' = Goto("fallback")
     ELSE /\ files' = files \o <<Entry(<<"backend">>, BackRawName, <<Ln("raw")>>)>>
                        \o ContractBlockEntries(args.back.blocks)
          /\ call' = [call EXCEPT !.pc = AfterBlock(0), !.i = 1, !.bound = TRUE,
                        !.spring_main_written = FALSE, !.saw_java = FALSE,
                        !.pom_written = FALSE, !.java_pkgs = {}]
  /\ UNCHANGED <<args, clock, prev, server, check>>

\* packager.py 1731-1746: the block the loop is at, its tag and its branch
CurBlock == args.back.blocks[call.i]
\* (b.get("language") or "txt").lower(); the tags of this model are lower-case
LangOf(b) == IF b.language = "" THEN "txt" ELSE b.language
MentionsFlask(content) == HasLine(content, {"flask_inst", "flask_inst_args", "app_route"})
MentionsExpress(content) == HasLine(content, {"express_inst"})

Branch(preset, b) ==
  IF IsContractBlock(b) THEN "skip"
  ELSE IF LangOf(b) = "java" \/ _looks_like_java(b.content) THEN "java"
  ELSE IF LangOf(b) \in {"xml", "pom"} /\ HasLine(b.content, {"pom_project"}) THEN "pom"
  ELSE IF preset = "spring" /\ LangOf(b) \in {"yml", "yaml"} THEN "yaml"
  ELSE IF preset = "flask" /\ (LangOf(b) \in {"python", "py"} \/ MentionsFlask(b.content)) THEN "flask"
  ELSE IF preset = "express"
          /\ (LangOf(b) \in {"javascript", "js", "typescript", "ts"} \/ MentionsExpress(b.content))
    THEN "express"
  ELSE IF LangOf(b) \in {"bash", "sh"} THEN "script"
  ELSE "other"

AtBlock(branch) ==
  /\ call.pc = "blocks"
  /\ Branch(args.preset, CurBlock) = branch

NextBlock == [call EXCEPT !.pc = AfterBlock(call.i), !.i = call.i + 1]

\* packager.py 1735-1736
SkipBlock ==
  /\ AtBlock("skip")
  /\ call' = NextBlock
  /\ UNCHANGED <<args, files, clock, prev, server, check>>

\* content.replace("@SpringBootApplication", "")
DropAnnotation(content) == [i \in DOMAIN content |-> IF content[i].k = "sba" THEN Ln("blank") ELSE content[i]]

\* packager.py 1738-1763
WriteJavaBlock ==
  /\ AtBlock("java")
  /\ LET content == _sanitize_java(CurBlock.content)
         pn == _java_path_and_name(content, GroupId)
         main == HasLine(content, {"sba"})
         name == _sanitize_java_filename(CurBlock.filename, pn.cls)
     IN /\ files' = Append(files, Entry(JavaRoot \o pn.pkg_path, name,
                             IF main /\ call.spring_main_written THEN DropAnnotation(content) ELSE content))
        /\ call' = [NextBlock EXCEPT !.saw_java = TRUE,
                      !.java_pkgs = call.java_pkgs \cup {pn.pkg_path},
                      !.spring_main_written = call.spring_main_written \/ main]
  /\ UNCHANGED <<args, clock, prev, server, check>>

\* packager.py 1764-1784
WritePomBlock ==
  /\ AtBlock("pom")
  /\ files' = Append(files, Entry(<<"backend">>, PomName, CurBlock.content \o <<Ln("pom_additions")>>))
  /\ call' = [NextBlock EXCEPT !.pom_written = TRUE]
  /\ UNCHANGED <<args, clock, prev, server, check>>

\* packager.py 1785-1786
WriteYamlBlock ==
  /\ AtBlock("yaml")
  /\ files' = Append(files, Entry(<<"backend", "src", "main", "resources">>, AppYmlName, CurBlock.content))
  /\ call' = NextBlock
  /\ UNCHANGED <<args, clock, prev, server, check>>

\* packager.py 1787-1790
WriteFlaskBlock ==
  /\ AtBlock("flask")
  /\ files' = Append(files, Entry(<<"backend", "app">>,
                 _sanitize_generic_filename("python", CurBlock.filename, RoutesFallback(call.i)),
                 _sanitize_flask_python(CurBlock.content)))
  /\ call' = NextBlock
  /\ UNCHANGED <<args, clock, prev, server, check>>

ServerFileNames == {<<"a","p","p",".","j","s">>, <<"s","e","r","v","e","r",".","j","s">>,
                    IndexJsName, <<"m","a","i","n",".","j","s">>}
ExtLang(b) ==
  IF LangOf(b) \in {"javascript", "js"} THEN "javascript"
  ELSE IF LangOf(b) \in {"typescript", "ts"} THEN "typescript"
  ELSE LangOf(b)

\* packager.py 1791-1801
WriteExpressBlock ==
  /\ AtBlock("express")
  /\ LET name == _sanitize_generic_filename(ExtLang(CurBlock), CurBlock.filename, ServerPartFallback(call.i))
     IN files' = IF \E x \in ServerFileNames : EndsWith(LowerText(name), x) THEN files
                 ELSE Append(files, Entry(<<"backend", "src">>, name, _sanitize_express_js(CurBlock.content)))
  /\ call' = NextBlock
  /\ UNCHANGED <<args, clock, prev, server, check>>

\* packager.py 1802-1804
WriteScriptBlock ==
  /\ AtBlock("script")
  /\ files' = Append(files, Entry(<<"backend", "scripts">>,
                 _sanitize_generic_filename(LangOf(CurBlock), CurBlock.filename, ServerPartFallback(call.i)),
                 CurBlock.content))
  /\ call' = NextBlock
  /\ UNCHANGED <<args, clock, prev, server, check>>

\* packager.py 1805-1807
WriteOtherBlock ==
  /\ AtBlock("other")
  /\ files' = Append(files, Entry(<<"backend">>,
                 _sanitize_generic_filename(LangOf(CurBlock), CurBlock.filename, ServerPartFallback(call.i)),
                 CurBlock.content))
  /\ call' = NextBlock
  /\ UNCHANGED <<args, clock, prev, server, check>>

\* packager.py 1814-1827: the longest common prefix of the packages seen, when
\* it has at least two segments; else the first two segments of the default
_compute_scan_base(pkgs, default_base) ==
  LET shortest == CHOOSE n \in {Len(p) : p \in pkgs} : \A q \in pkgs : n <= Len(q)
      agree(n) == \A p \in pkgs, q \in pkgs : SubSeq(p, 1, n) = SubSeq(q, 1, n)
      common == CHOOSE n \in 0..shortest : agree(n) /\ \A k \in 0..shortest : agree(k) => k <= n
      any == CHOOSE p \in pkgs : TRUE
  IN IF pkgs = {} \/ common < 2 THEN SubSeq(default_base, 1, 2)
     ELSE SubSeq(any, 1, common)

\* packager.py 1809-1875: both conditions read saw_java, which only the
\* `if back:` branch binds
SpringFallbacks ==
  /\ call.pc = "fallback"
  /\ IF args.preset = "spring" /\ ~call.bound
     THEN /\ call' = Raised("UnboundLocalError")
          /\ files' = files
     ELSE /\ call' = Goto("qa")
          /\ files' = files
               \o (IF args.preset = "spring" /\ call.saw_java /\ ~call.spring_main_written
                   THEN <<Entry(JavaRoot \o GroupId, AppClassName \o DotJava,
                                SpringBootstrap(_compute_scan_base(call.java_pkgs, GroupId)))>>
                   ELSE <<>>)
               \o (IF args.preset = "spring" /\ call.saw_java /\ ~call.pom_written
                   THEN <<Entry(<<"backend">>, PomName, <<Ln("pom_project")>>)>>
                   ELSE <<>>)
  /\ UNCHANGED <<args, clock, prev, server, check>>

\* packager.py 1882-1891: the name of the i-th block of the test plan
QaName(b, i) ==
  IF b.filename # <<>> THEN b.filename
  ELSE IF LangOf(b) \in {"javascript", "js"}
    THEN (IF HasLine(b.content, {"login"})
          THEN <<"l","o","g","i","n",".","t","e","s","t",".","j","s">>
          ELSE <<"t","e","s","t","_", DigitChars[i], ".","j","s">>)
  ELSE <<"t","e","s","t","s","_","e","x","a","m","p","l","e","_", DigitChars[i], ".">>
       \o (IF b.language = "" THEN <<"t","x","t">> ELSE <<b.language>>)

\* packager.py 1877-1894
WriteQa ==
  /\ call.pc = "qa"
  /\ files' = IF ~args.qa.text THEN files
              ELSE files \o <<Entry(<<"qa">>, ReadmeName, <<Ln("raw")>>)>>
                     \o [i \in DOMAIN args.qa.blocks |->
                           Entry(<<"qa">>, QaName(args.qa.blocks[i], i), args.qa.blocks[i].content)]
  /\ call' = Goto("done")
  /\ UNCHANGED <<args, clock, prev, server, check>>

NextZip ==
  \/ WriteReadme \/ EnrichContract \/ WriteFrontend
  \/ ScaffoldFlask \/ ScaffoldExpress \/ ScaffoldSpring
  \/ BeginBackend
  \/ SkipBlock \/ WriteJavaBlock \/ WritePomBlock \/ WriteYamlBlock
  \/ WriteFlaskBlock \/ WriteExpressBlock \/ WriteScriptBlock \/ WriteOtherBlock
  \/ SpringFallbacks \/ WriteQa

\* the locals of a call that has not started
FreshCall ==
  [pc |-> "readme", exc |-> "", contract |-> EmptyContract, i |-> 0, bound |-> FALSE,
   saw_java |-> FALSE, spring_main_written |-> FALSE, pom_written |-> FALSE, java_pkgs |-> {}]
NoArchive == [returned |-> FALSE, entries |-> <<>>]
NoServer == [on |-> FALSE]
NoCheck == [on |-> FALSE]

\* ------------------------------------------------------------------ inputs
\* Sequences over S of length at most n
SeqsUpTo(S, n) == UNION {[1..k -> S] : k \in 0..n}

PyApp == <<Ln("import"), Ln("app_route"), Ln("code_ind"), Ln("main_guard"), Ln("app_run_ind")>>
PyBare == <<Ln("flask_inst"), Ln("flask_inst_args"), Ln("code"), Ln("app_run")>>
PyBlueprint == <<Ln("import"), Ln("blueprint"), Ln("code")>>
JsServer == <<Ln("express_inst"), Ln("code"), Ln("app_listen")>>
JsMain == <<Ln("code"), Ln("require_main"), Ln("listen_open"), Ln("code"), Ln("close_call"), Ln("close_brace")>>
JavaMain == <<Ln("prose"), LnA("package", GroupId), Ln("sba"), LnA("public_class", <<"A","p","p">>),
              Ln("spring_run")>>
JavaMainSameName == <<Ln("sba"), LnA("public_class", AppClassName), Ln("spring_run")>>
JavaController == <<Ln("jimport_javax"), Ln("rest_controller"), LnA("public_class", <<"T","a","s","k","s">>)>>
JavaEntity == <<LnA("package", <<"org", "acme", "model">>), Ln("entity"),
                LnA("public_class", <<"T","a","s","k">>)>>
UserClassName == <<"U","s","e","r">>
\* an entity class named User with no @Table annotation
JavaUser == <<Ln("jimport"), Ln("entity"), LnA("public_class", UserClassName)>>

RoutesJsName == <<"r","o","u","t","e","s",".","j","s">>

\* a file name that climbs out of the directory it is written to
ClimbingName == <<".",".","/","e",".","j","s">>
BackBlocks ==
  {Block("python", <<>>, PyApp), Block("python", MainPyName, PyApp),
   Block("python", MainPyPath, PyApp), Block("python", InitPyName, PyBare),
   Block("py", <<>>, PyBlueprint),
   Block("javascript", <<>>, JsServer), Block("js", IndexJsName, JsServer),
   Block("js", RoutesJsName, JsMain),
   Block("java", <<>>, JavaMain), Block("java", <<>>, JavaMainSameName),
   Block("java", <<>>, JavaController), Block("", <<>>, JavaEntity),
   Block("java", <<>>, JavaUser),
   Block("xml", PomName, <<Ln("pom_project")>>), Block("yaml", <<>>, <<Ln("yaml")>>),
   Block("bash", <<>>, <<Ln("shell")>>), Block("json", <<>>, <<Ln("json_contract")>>),
   Block("", <<>>, <<Ln("prose")>>), Block("", ClimbingName, <<Ln("prose")>>)}

NoText == [text |-> FALSE, blocks |-> <<>>]
Text(blocks) == [text |-> TRUE, blocks |-> blocks]
Backs == {NoText} \cup {Text(bs) : bs \in SeqsUpTo(BackBlocks, MaxBlocks)}

QaTexts == {NoText, Text(<<Block("js", <<>>, <<Ln("code")>>)>>),
            Text(<<Block("js", ClimbingName, <<Ln("code")>>)>>),
            Text(<<Block("python", <<>>, <<Ln("code")>>), Block("js", <<>>, <<Ln("login")>>)>>)}

TasksPath == ApiBase \o <<"/">> \o TasksName
Methods == {"GET", "POST", "PUT", "DELETE"}
Paths == {TasksPath, TasksPath \o IdColon, TasksPath \o IdBrace,
          ApiBase \o <<"/","s","t","a","t","s">>}
Endpoints == {Endpoint(Verb(m), Str(p)) : m \in Methods, p \in Paths}
\* contracts whose endpoints are objects with a verb and a path
WellFormedContracts == {Contract(Str(ApiBase), EndpointList(es)) : es \in SeqsUpTo(Endpoints, MaxEndpoints)}

ListTasks == Endpoint(Verb("GET"), Str(TasksPath))
CreateTask == Endpoint(Verb("POST"), Str(TasksPath))
TasksContract == Contract(Str(ApiBase), EndpointList(<<ListTasks, CreateTask>>))
ReadOnlyContract == Contract(Str(ApiBase), EndpointList(<<ListTasks>>))
\* malformed contracts: an entry that is no object, a path that is no string,
\* endpoints that are no list, a contract that is no dict
MalformedContracts ==
  {Contract(Str(ApiBase), EndpointList(<<NonObjectEntry>>)),
   Contract(Str(ApiBase), EndpointList(<<Endpoint(Verb("GET"), Num)>>)),
   Contract(Str(ApiBase), EndpointList(<<NullEntry, ListTasks>>)),
   Contract(Null, NullEndpoints), Contract(Str(ApiBase), ScalarEndpoints), NonDictContract}

\* a resource that is no todo name, created with a boolean field
StatsPath == ApiBase \o <<"/","s","t","a","t","s">>
FlaggedContract ==
  Contract(Str(ApiBase),
           EndpointList(<<EndpointWithBody(Verb("POST"), Str(StatsPath),
                                           <<[name |-> <<"o","k">>, type |-> "boolean"]>>)>>))

\* what the task text holds: "crud", and one of the todo idioms
PlainTask == [crud |-> FALSE, todo |-> FALSE]
Tasks == {PlainTask, [crud |-> TRUE, todo |-> FALSE], [crud |-> FALSE, todo |-> TRUE],
          [crud |-> TRUE, todo |-> TRUE]}

Args(preset, contract, task, front, back, qa) ==
  [preset |-> preset, contract |-> contract, task |-> task, front |-> front, back |-> back, qa |-> qa]

\* calls that vary the backend draft, calls that vary the contract, and calls
\* that vary the rest
DraftCalls ==
  {Args(p, c, PlainTask, TRUE, b, NoText) :
     p \in Presets, c \in {NoneContract, ReadOnlyContract, TasksContract}, b \in Backs}
ContractCalls ==
  {Args(p, c, t, TRUE, Text(<<>>), NoText) : p \in Presets, c \in WellFormedContracts \cup {FlaggedContract}, t \in Tasks}
OtherCalls ==
  {Args(p, c, PlainTask, f, b, q) :
     p \in Presets, c \in {NoneContract, EmptyContract} \cup MalformedContracts,
     f \in BOOLEAN, b \in {NoText, Text(<<>>)}, q \in QaTexts}
Calls == DraftCalls \cup ContractCalls \cup OtherCalls

Init ==
  /\ args \in Calls
  /\ call = FreshCall
  /\ files = <<>>
  /\ clock = 0
  /\ prev = NoArchive
  /\ server = NoServer
  /\ check = NoCheck

Next == NextZip

Spec == Init /\ [][Next]_vars

\* ------------------------------------------------------------------ claims
\* The tree the archive unpacks to: for each path, the entry written last.
PathAt(i) == [dir |-> files[i].dir, name |-> files[i].name]
Surviving == {i \in DOMAIN files : \A j \in DOMAIN files : PathAt(j) = PathAt(i) => j <= i}
CountKinds(content, kinds) == Cardinality({n \in DOMAIN content : content[n].k \in kinds})
RECURSIVE CountInTree(_, _)
CountInTree(is, kinds) ==
  IF is = {} THEN 0
  ELSE LET i == CHOOSE x \in is : TRUE
       IN CountKinds(files[i].content, kinds) + CountInTree(is \ {i}, kinds)

\* app.run(...), app.listen(...), SpringApplication.run(...)
BootstrapKinds == {"app_run", "app_run_ind", "app_listen", "listen_open", "spring_run"}

\* C1: when build_structured_zip returns, the files of the archive together
\* hold at most one app.run / app.listen / SpringApplication.run statement,
\* whatever the preset, the contract and the backend blocks.
C1_AtMostOneBootstrap ==
  call.pc = "done" => CountInTree(Surviving, BootstrapKinds) <= 1

\* C2: when build_structured_zip returns for the spring preset, exactly one
\* Java file of the archive carries @SpringBootApplication.
C2_OneRootComponent ==
  (call.pc = "done" /\ args.preset = "spring")
    => Cardinality({i \in Surviving : HasLine(files[i].content, {"sba"})}) = 1

\* C3: build_structured_zip never raises: no call, for any preset, texts and
\* contract value, ends in an exception.
C3_NeverRaises == call.pc # "raised"

\* C8: no archive path is written more than once within a call.
C8_PathsWrittenOnce ==
  \A i \in DOMAIN files, j \in DOMAIN files : PathAt(i) = PathAt(j) => i = j

\* The routing file of a preset, and the full path a route line of it serves.
Scaffolded == call.pc \in {"back", "blocks", "fallback", "qa", "done"}
RoutingPath ==
  CASE args.preset = "flask" -> [dir |-> <<"backend", "app">>, name |-> MainPyName]
    [] args.preset = "express" -> [dir |-> <<"backend", "src">>, name |-> IndexJsName]
    [] OTHER -> [dir |-> JavaRoot \o GroupId \o <<"controller">>,
                 name |-> <<"A","p","i","C","o","n","t","r","o","l","l","e","r">> \o DotJava]
RoutingFiles == {i \in DOMAIN files : PathAt(i) = RoutingPath}
Mount(content) ==
  LET at == {n \in DOMAIN content : content[n].k \in {"blueprint", "request_mapping"}}
  IN IF at = {} THEN <<>> ELSE content[CHOOSE n \in at : TRUE].a
\* one spelling for the id parameter of the three stacks
Canon(p) == Replace(Replace(p, IdBrace, IdColon), IdAngle, IdColon)
Serves(content, m, p) ==
  \E n \in DOMAIN content :
    /\ content[n].k = "route"
    /\ content[n].m = "ANY" \/ Upper(content[n].m) = m
    /\ Canon(Mount(content) \o content[n].a) = Canon(p)

DeclaresEndpoints ==
  /\ args.contract \in WellFormedContracts
  /\ args.contract.endpoints.items # <<>>
  /\ args.back.blocks = <<>>
Declared == [i \in DOMAIN args.contract.endpoints.items |->
               [method |-> MethodOf(args.contract.endpoints.items[i]),
                path |-> PathOf(args.contract.endpoints.items[i])]]

\* C4: when the contract declares endpoints and the draft brings no
\* entrypoint, the scaffold step leaves a routing file that serves every
\* declared endpoint under its method and path, for each preset.
C4_EveryEndpointHandled ==
  (DeclaresEndpoints /\ (Scaffolded \/ call.pc = "raised"))
    => \E i \in RoutingFiles :
         \A n \in DOMAIN Declared : Serves(files[i].content, Declared[n].method, Declared[n].path)

\* the resource of the contract and its four conventional operations
DeclaredResource == MainResource(Declared, ApiBase, IF args.preset = "express" THEN TasksName ELSE ItemsName)
CollPath == ApiBase \o <<"/">> \o DeclaredResource
ItemPath == CollPath \o IdColon
Conventional(e) ==
  \/ e.method \in {"GET", "POST"} /\ e.path = CollPath
  \/ e.method \in {"PUT", "DELETE"} /\ Canon(e.path) = ItemPath

\* C5: when the contract declares endpoints but none of the four conventional
\* operations of its resource, the routing file still serves list and create
\* at <base_url>/<resource> and update and delete at <base_url>/<resource>/<id>.
C5_FourHandlersAnyway ==
  (DeclaresEndpoints /\ Scaffolded /\ \A n \in DOMAIN Declared : ~Conventional(Declared[n]))
    => \E i \in RoutingFiles :
         /\ Serves(files[i].content, "GET", CollPath)
         /\ Serves(files[i].content, "POST", CollPath)
         /\ Serves(files[i].content, "PUT", ItemPath)
         /\ Serves(files[i].content, "DELETE", ItemPath)

\* ------------------------------------------------- two calls, one clock
\* zf.writestr(name, data) builds ZipInfo(name, date_time=time.localtime(...)):
\* each entry carries the wall-clock time of its write (packager.py 940-1894)
Tick ==
  /\ clock < MaxClock
  /\ clock' = clock + 1
  /\ UNCHANGED <<args, call, files, prev, server, check>>

\* the caller keeps the archive it got and calls again with the same arguments
Rerun ==
  /\ call.pc = "done"
  /\ ~prev.returned
  /\ prev' = [returned |-> TRUE, entries |-> files]
  /\ files' = <<>>
  /\ call' = FreshCall
  /\ UNCHANGED <<args, clock, server, check>>

TwiceCalls == {c \in DraftCalls : Len(c.back.blocks) <= 1}

InitTwice ==
  /\ args \in TwiceCalls
  /\ call = FreshCall
  /\ files = <<>>
  /\ clock = 0
  /\ prev = NoArchive
  /\ server = NoServer
  /\ check = NoCheck

NextTwice == NextZip \/ Tick \/ Rerun

SpecTwice == InitTwice /\ [][NextTwice]_vars

\* C9: a second call with the same arguments returns the archive the first
\* call returned: same entries, same order, same contents, same metadata.
C9_SameArchive ==
  (prev.returned /\ call.pc = "done") => files = prev.entries

\* ------------------------------------------- the generated server at run time
\* A JSON body as the handlers read it: name and title are a string or None
\* (key missing), and the client may send an id of its own.
None == "<none>"
Bodies == [name : {None, "", "a", "b"}, title : {None, "t"}, id : {None, "9"}]
TitleField == <<"t","i","t","l","e">>
Field(body, k) == IF k = NameField THEN body.name ELSE IF k = TitleField THEN body.title ELSE None

\* val is None or val == '' / body[k]===undefined || body[k]===null || body[k]===''
MissingRequired(required, body) ==
  \E n \in DOMAIN required : Field(body, required[n]) \in {None, ""}

\* it = {id}; copy every key but id; name falls back to title
NewItem(id, body) ==
  [id |-> id, title |-> body.title,
   name |-> IF body.name = None /\ body.title # None THEN body.title ELSE body.name]
Updated(it, body) ==
  [id |-> it.id,
   title |-> IF body.title # None THEN body.title ELSE it.title,
   name |-> IF body.name # None THEN body.name
            ELSE IF body.title # None THEN body.title ELSE it.name]

Reply(status, items, current_id) == [status |-> status, items |-> items, current_id |-> current_id]
Position(items, id) ==
  LET at == {n \in DOMAIN items : items[n].id = id}
  IN IF at = {} THEN 0 ELSE CHOOSE n \in at : \A k \in at : n <= k
Without(items, n) == SubSeq(items, 1, n - 1) \o SubSeq(items, n + 1, Len(items))

\* packager.py 1323-1332 (flask: current_id += 1 makes the name local to the
\* handler, so reading it raises UnboundLocalError and Flask answers 500),
\* 1428 and 1452-1455 (express), 251-259 (express, no contract)
HandleCreate(preset, h, required, items, current_id, body) ==
  CASE h = "create" /\ preset = "flask" ->
         IF MissingRequired(required, body) THEN Reply(400, items, current_id)
         ELSE Reply(500, items, current_id)
    [] h = "create" /\ preset = "express" ->
         IF MissingRequired(required, body) THEN Reply(400, items, current_id)
         ELSE Reply(201, Append(items, NewItem(current_id, body)), current_id + 1)
    [] h = "create_todo" ->
         IF MissingRequired(required, body) THEN Reply(400, items, current_id)
         ELSE Reply(201, Append(items, [id |-> current_id, title |-> None,
                                        name |-> IF body.name = None THEN "" ELSE body.name]),
                    current_id + 1)
    [] h = "crud_create" ->
         IF body.name \in {None, ""} THEN Reply(400, items, current_id)
         ELSE Reply(201, Append(items, [id |-> current_id, title |-> None, name |-> body.name]),
                    current_id + 1)

\* packager.py 1333-1341 (flask), 1433 (express), 1633-1638 (spring: the error
\* is an ordinary return value, so the status is 200), 261-270 (express, no contract)
HandleUpdate(preset, h, items, current_id, id, body) ==
  LET n == Position(items, id)
  IN CASE h = "update" ->
            IF n = 0 THEN Reply(IF preset = "spring" THEN 200 ELSE 404, items, current_id)
            ELSE Reply(200, [items EXCEPT ![n] = Updated(items[n], body)], current_id)
       [] h = "crud_update" ->
            IF n = 0 THEN Reply(404, items, current_id)
            ELSE IF body.name \in {None, ""} THEN Reply(400, items, current_id)
            ELSE Reply(200, [items EXCEPT ![n].name = body.name], current_id)

\* packager.py 1342-1348 (flask), 1436 (express), 1639-1644 (spring), 272-279
HandleDelete(preset, h, items, current_id, id) ==
  LET n == Position(items, id)
  IN IF n = 0 THEN Reply(IF preset = "spring" THEN 200 ELSE 404, items, current_id)
     ELSE Reply(IF preset = "spring" THEN 200 ELSE 204, Without(items, n), current_id)

\* The route of the file a request for (verb, path) reaches: the first line
\* registered for the verb whose full path is the requested one.
RouteFor(file, verb, path) ==
  LET hits == {n \in DOMAIN file :
                 /\ file[n].k = "route"
                 /\ file[n].m = "ANY" \/ Upper(file[n].m) = verb
                 /\ Canon(Mount(file) \o file[n].a) = path}
  IN IF hits = {} THEN 0 ELSE CHOOSE n \in hits : \A k \in hits : n <= k
RequiredOf(file) ==
  LET at == {n \in DOMAIN file : file[n].k = "required"}
  IN IF at = {} THEN <<NameField>> ELSE file[CHOOSE n \in at : TRUE].a

\* The routing file the scaffold of `preset` writes for a contract.
RoutingOf(preset, contract, task) ==
  LET c == Enrich(contract).val
  IN CASE preset = "flask" -> Ok(FlaskMain(c))
       [] preset = "express" -> Ok(ExpressIndex(c, task))
       [] OTHER -> SpringController(c)

UpdateTask == Endpoint(Verb("PUT"), Str(TasksPath \o IdColon))
DeleteTask == Endpoint(Verb("DELETE"), Str(TasksPath \o IdBrace))
ServerContracts ==
  {NoneContract, ReadOnlyContract,
   Contract(Str(ApiBase), EndpointList(<<ListTasks, CreateTask, UpdateTask, DeleteTask>>)),
   Contract(Str(ApiBase), EndpointList(<<ListTasks, UpdateTask, DeleteTask>>))}
Colls == {TasksPath, ApiBase \o <<"/">> \o UsersName}
Ids == 1..MaxId

NoRequest == [op |-> "none", status |-> 0, id |-> 0, complete |-> FALSE, lacking |-> FALSE,
              before |-> <<>>, before_id |-> 1, before_issued |-> {}]

\* items = [], current_id = 1 (packager.py 1305-1306, 1407-1408, 1605-1606, 237-238)
Boot(preset, file) ==
  [on |-> TRUE, preset |-> preset, file |-> file, items |-> <<>>, current_id |-> 1,
   issued |-> {}, last |-> NoRequest]

InitServer ==
  /\ args \in {Args(p, c, t, TRUE, Text(<<>>), NoText) :
                 p \in Presets, c \in ServerContracts, t \in {PlainTask, [crud |-> TRUE, todo |-> FALSE]}}
  /\ ~RoutingOf(args.preset, args.contract, args.task).raised
  /\ server = Boot(args.preset, RoutingOf(args.preset, args.contract, args.task).val)
  /\ call = FreshCall
  /\ files = <<>>
  /\ clock = 0
  /\ prev = NoArchive
  /\ check = NoCheck

Answer(op, r, id, complete, lacking) ==
  [server EXCEPT !.items = r.items, !.current_id = r.current_id,
     !.issued = IF Len(r.items) > Len(server.items) THEN server.issued \cup {server.current_id}
                ELSE server.issued,
     !.last = [op |-> op, status |-> r.status, id |-> id, complete |-> complete, lacking |-> lacking,
               before |-> server.items, before_id |-> server.current_id,
               before_issued |-> server.issued]]

ReqList ==
  /\ server.on
  /\ \E coll \in Colls :
       LET n == RouteFor(server.file, "GET", coll)
       IN /\ n # 0
          /\ server.file[n].h \in {"list", "crud_list"}
          /\ server' = Answer("list", Reply(200, server.items, server.current_id), 0, FALSE, FALSE)
  /\ UNCHANGED <<args, call, files, clock, prev, check>>

ReqCreate ==
  /\ server.on
  /\ Len(server.items) < MaxItems
  /\ server.current_id <= MaxId
  /\ \E coll \in Colls, body \in Bodies :
       LET n == RouteFor(server.file, "POST", coll)
           required == RequiredOf(server.file)
       IN /\ n # 0
          /\ server.file[n].h \in {"create", "create_todo", "crud_create"}
          /\ server' = Answer("create",
                 HandleCreate(server.preset, server.file[n].h, required,
                              server.items, server.current_id, body),
                 0,
                 \A k \in DOMAIN required : Field(body, required[k]) \notin {None, ""},
                 \E k \in DOMAIN required : Field(body, required[k]) = None)
  /\ UNCHANGED <<args, call, files, clock, prev, check>>

ReqUpdate ==
  /\ server.on
  /\ \E coll \in Colls, id \in Ids, body \in Bodies :
       LET n == RouteFor(server.file, "PUT", coll \o IdColon)
       IN /\ n # 0
          /\ server.file[n].h \in {"update", "crud_update"}
          /\ server' = Answer("update",
                 HandleUpdate(server.preset, server.file[n].h, server.items, server.current_id, id, body),
                 id, FALSE, FALSE)
  /\ UNCHANGED <<args, call, files, clock, prev, check>>

ReqDelete ==
  /\ server.on
  /\ \E coll \in Colls, id \in Ids :
       LET n == RouteFor(server.file, "DELETE", coll \o IdColon)
       IN /\ n # 0
          /\ server.file[n].h \in {"delete", "crud_delete"}
          /\ server' = Answer("delete",
                 HandleDelete(server.preset, server.file[n].h, server.items, server.current_id, id),
                 id, FALSE, FALSE)
  /\ UNCHANGED <<args, call, files, clock, prev, check>>

NextServer == ReqList \/ ReqCreate \/ ReqUpdate \/ ReqDelete

SpecServer == InitServer /\ [][NextServer]_vars

IdsOf(items) == [n \in DOMAIN items |-> items[n].id]

\* C6: in every preset, a create request with all required fields appends
\* exactly one item whose id is greater than every id assigned before, and a
\* create request that lacks a required field is answered 400, leaves the
\* list unchanged and consumes no id.
C6_CreateAssignsFreshId ==
  (server.on /\ server.last.op = "create") =>
    /\ server.last.complete =>
         /\ Len(server.items) = Len(server.last.before) + 1
         /\ SubSeq(server.items, 1, Len(server.last.before)) = server.last.before
         /\ \A k \in server.last.before_issued : server.items[Len(server.items)].id > k
    /\ server.last.lacking =>
         /\ server.last.status = 400
         /\ server.items = server.last.before
         /\ server.current_id = server.last.before_id

\* C7: in every preset, an update or delete of an id that is not in the list
\* is answered 404 and leaves the list unchanged; an update keeps the ids of
\* the list, and a delete removes the addressed item and nothing else.
C7_MissingIdIs404 ==
  (server.on /\ server.last.op \in {"update", "delete"}) =>
    LET n == Position(server.last.before, server.last.id)
    IN /\ n = 0 => (server.last.status = 404 /\ server.items = server.last.before)
       /\ (n # 0 /\ server.last.op = "update") => IdsOf(server.items) = IdsOf(server.last.before)
       /\ (n # 0 /\ server.last.op = "delete") => server.items = Without(server.last.before, n)

\* ------------------------------------------------ validate_contract_minimal
Verdict(ok, msg) == [ok |-> ok, msg |-> msg]

\* the fallback with the test for a missing key weakened to "both missing"
FallbackBothMissing(contract) ==
  IF contract.t # "dict" THEN Ok(Verdict(FALSE, "Contract must be a dict"))
  ELSE IF contract.base_url.t = "absent" /\ contract.endpoints.t = "absent"
    THEN Ok(Verdict(FALSE, "Missing base_url or endpoints"))
  ELSE Ok(Verdict(TRUE, None))

\* validation.py 36-42: the check made when jsonschema could not be imported
MinimalFallback(contract) ==
  IF contract.t # "dict" THEN Ok(Verdict(FALSE, "Contract must be a dict"))
  ELSE IF contract.base_url.t = "absent" \/ contract.endpoints.t = "absent"
    THEN Ok(Verdict(FALSE, "Missing base_url or endpoints"))
  ELSE Ok(Verdict(TRUE, None))

\* validation.py 12-31: API_CONTRACT_SCHEMA.  required asks for the key,
\* properties type the values that are there.
ItemConforms(e) ==
  /\ e.t = "obj"
  /\ e.path.t = "str"
  /\ e.method.t = "str"
Conforms(contract) ==
  /\ contract.t = "dict"
  /\ contract.base_url.t = "str"
  /\ contract.endpoints.t = "list"
  /\ \A n \in DOMAIN contract.endpoints.items : ItemConforms(contract.endpoints.items[n])

\* validation.py 43-44: jsonschema.validate raises ValidationError or returns
SchemaValidate(contract) ==
  IF Conforms(contract) THEN Ok(Verdict(TRUE, None)) ELSE Raise("ValidationError")

\* validation.py 34-46: the body runs under try, any exception becomes a verdict
validate_contract_minimal(contract, has_jsonschema) ==
  LET body == IF ~has_jsonschema THEN MinimalFallback(contract) ELSE SchemaValidate(contract)
  IN IF body.raised THEN Ok(Verdict(FALSE, "Contract validation error")) ELSE body

\* the shapes an entry of endpoints can have
Scalars == {Absent, Null, Num, Str(TasksPath)}
Entries ==
  {NullEntry, NonObjectEntry}
    \cup {Endpoint(m, p) : m \in {Absent, Null, Num, Verb("GET")}, p \in {Absent, Num, Str(TasksPath), Str(<<>>)}}
ContractShapes ==
  {NoneContract, NonDictContract}
    \cup {Contract(b, e) : b \in Scalars,
                           e \in {NoEndpoints, NullEndpoints, ScalarEndpoints}
                                   \cup {EndpointList(es) : es \in SeqsUpTo(Entries, MaxEndpoints)}}

InitValidate ==
  /\ check \in [on : {TRUE}, pc : {"call"}, contract : ContractShapes, jsonschema : BOOLEAN,
                result : {Ok(Verdict(FALSE, None))}]
  /\ args = Args("flask", NoneContract, PlainTask, FALSE, NoText, NoText)
  /\ call = FreshCall
  /\ files = <<>>
  /\ clock = 0
  /\ prev = NoArchive
  /\ server = NoServer

Validate ==
  /\ check.on
  /\ check.pc = "call"
  /\ check' = [check EXCEPT !.pc = "returned",
                 !.result = validate_contract_minimal(check.contract, check.jsonschema)]
  /\ UNCHANGED <<args, call, files, clock, prev, server>>

NextValidate == Validate

SpecValidate == InitValidate /\ [][NextValidate]_vars

LacksKey(contract) ==
  contract.t = "dict" /\ (contract.base_url.t = "absent" \/ contract.endpoints.t = "absent")
MinimalContract(contract) ==
  contract.t = "dict" /\ contract.base_url.t = "str" /\ contract.endpoints = EndpointList(<<>>)

\* C10: validate_contract_minimal never raises; it returns (False, message)
\* for a contract that lacks base_url or endpoints, {} included, and
\* (True, None) for a contract with a base_url (a string, as in
\* {base_url: "/api", endpoints: []}) and an empty endpoints list, with
\* jsonschema and without it.
C10_MinimalVerdicts ==
  (check.on /\ check.pc = "returned") =>
    /\ ~check.result.raised
    /\ LacksKey(check.contract) => (~check.result.val.ok /\ check.result.val.msg # None)
    /\ MinimalContract(check.contract) => (check.result.val.ok /\ check.result.val.msg = None)

\* {} has been judged without jsonschema and refused
C10_Witness ==
  /\ check.on /\ check.pc = "returned"
  /\ ~check.jsonschema
  /\ check.contract = EmptyContract
  /\ ~check.result.val.ok

\* ------------------------------------------------------------------ C11
LacksPathOrMethod(contract) ==
  /\ contract.t = "dict"
  /\ contract.endpoints.t = "list"
  /\ \E n \in DOMAIN contract.endpoints.items :
       LET e == contract.endpoints.items[n]
       IN e.t = "obj" /\ (e.path.t = "absent" \/ e.method.t = "absent")

\* C11: validate_contract_minimal returns (False, message) for every contract
\* in which at least one endpoint lacks a path or lacks a method, with
\* jsonschema and with the fallback used without it.
C11_EndpointsNeedPathAndMethod ==
  (check.on /\ check.pc = "returned" /\ LacksPathOrMethod(check.contract)) =>
    (~check.result.raised /\ ~check.result.val.ok /\ check.result.val.msg # None)

\* ------------------------------------------------ check_front_vs_contract
\* A URL literal: scheme and host (<<>> for a relative URL) and the path.
Url(origin, path) == [origin |-> origin, path |-> path]
Raw(u) == u.origin \o u.path
\* fetch(url, {method: m}); m = "" when the call names no method
Fetch(u, m) == [url |-> u, method |-> m]
ScriptFile(name, calls) == [name |-> name, calls |-> calls]

\* validation.py 59-79: the calls of a script, method upper-cased, GET by default
_extract_fetch_calls(js_content) ==
  [i \in DOMAIN js_content |->
     [method |-> IF js_content[i].method = "" THEN "GET" ELSE Upper(js_content[i].method),
      url |-> js_content[i].url]]

\* validation.py 103-106: the calls of the .js/.ts files, in the order of the map
IsScript(name) ==
  EndsWith(LowerText(name), <<".","j","s">>) \/ EndsWith(LowerText(name), <<".","t","s">>)
RECURSIVE UsedCalls(_)
UsedCalls(front_files) ==
  IF front_files = <<>> THEN <<>>
  ELSE (IF IsScript(Head(front_files).name) THEN _extract_fetch_calls(Head(front_files).calls) ELSE <<>>)
         \o UsedCalls(Tail(front_files))

\* validation.py 95-99: e.get on an entry that is no object and .upper() on a
\* method that is no string raise; a path is kept whatever it is
FrontBadEntry(e) == e.t # "obj" \/ e.method.t = "num"
FrontPathOf(e) == IF Truthy(e.path) THEN e.path ELSE Str(<<>>)
FrontEndpointSet(contract) ==
  IF contract.endpoints.t = "scalar" THEN Raise("TypeError")
  ELSE IF \E i \in DOMAIN EntriesOf(contract) : FrontBadEntry(EntriesOf(contract)[i])
    THEN Raise("AttributeError")
  ELSE Ok({<<MethodOf(EntriesOf(contract)[i]), FrontPathOf(EntriesOf(contract)[i])>> :
             i \in DOMAIN EntriesOf(contract)})

\* validation.py 113-117: urlparse(raw).path or raw
CallPath(raw) == IF raw.path # <<>> THEN raw.path ELSE Raw(raw)

\* a call matches only as it is written
CoveredAsIs(method, path, endpoints) == <<method, Str(path)>> \in endpoints

\* validation.py 118-125: as it is, or without a leading /api
CoveredCall(method, path, endpoints) ==
  LET alt == IF StartsWith(path, ApiBase) THEN Drop(path, Len(ApiBase)) ELSE path
  IN <<method, Str(path)>> \in endpoints \/ <<method, Str(alt)>> \in endpoints

FrontVerdict(ok, missing) == [ok |-> ok, msg |-> IF ok THEN None ELSE "missing", missing |-> missing]

\* validation.py 94-129
check_front_vs_contract(front_files, contract) ==
  LET endpoints == FrontEndpointSet(contract)
      used == [i \in DOMAIN UsedCalls(front_files) |->
                 [method |-> UsedCalls(front_files)[i].method,
                  path |-> CallPath(UsedCalls(front_files)[i].url)]]
  IN IF endpoints.raised THEN endpoints
     ELSE IF used = <<>> THEN Ok(FrontVerdict(TRUE, <<>>))
     ELSE LET missing == SelectSeq(used, LAMBDA c : ~CoveredCall(c.method, c.path, endpoints.val))
          IN IF missing # <<>> THEN Ok(FrontVerdict(FALSE, missing))
             ELSE Ok(FrontVerdict(TRUE, <<>>))

Origin == <<"h","t","t","p",":","/","/","h">>
ShortPath == <<"/">> \o TasksName
FetchCalls ==
  {Fetch(Url(<<>>, TasksPath), ""), Fetch(Url(<<>>, TasksPath), "post"),
   Fetch(Url(<<>>, ShortPath), ""), Fetch(Url(Origin, TasksPath), "POST"),
   Fetch(Url(Origin, <<>>), ""), Fetch(Url(<<>>, ApiBase \o <<"x">>), "")}
ScriptJs == <<"s","c","r","i","p","t",".","j","s">>
AppTs == <<"A","P","P",".","T","S">>
IndexHtml == <<"i","n","d","e","x",".","h","t","m","l">>
FrontFiles ==
  {<<>>}
    \cup {<<ScriptFile(ScriptJs, cs)>> : cs \in SeqsUpTo(FetchCalls, MaxCalls)}
    \cup {<<ScriptFile(IndexHtml, <<c>>), ScriptFile(AppTs, cs)>> :
            c \in {Fetch(Url(<<>>, ShortPath), "delete")}, cs \in SeqsUpTo(FetchCalls, 1)}
FrontEntries ==
  {Endpoint(Verb("GET"), Str(TasksPath)), Endpoint(Verb("post"), Str(TasksPath)),
   Endpoint(Verb("GET"), Str(ShortPath)), Endpoint(Verb("GET"), Str(<<"x">>)),
   Endpoint(Absent, Null), Endpoint(Num, Str(TasksPath)), Endpoint(Verb("GET"), Num),
   NullEntry, NonObjectEntry}
FrontContracts ==
  {EmptyContract}
    \cup {Contract(Str(ApiBase), e) :
            e \in {NullEndpoints, ScalarEndpoints}
                    \cup {EndpointList(es) : es \in SeqsUpTo(FrontEntries, MaxEndpoints)}}

InitFront ==
  /\ check \in [on : {TRUE}, pc : {"call"}, front_files : FrontFiles, contract : FrontContracts,
                result : {Ok(FrontVerdict(TRUE, <<>>))}]
  /\ args = Args("flask", NoneContract, PlainTask, FALSE, NoText, NoText)
  /\ call = FreshCall
  /\ files = <<>>
  /\ clock = 0
  /\ prev = NoArchive
  /\ server = NoServer

CheckFront ==
  /\ check.on
  /\ check.pc = "call"
  /\ check' = [check EXCEPT !.pc = "returned",
                 !.result = check_front_vs_contract(check.front_files, check.contract)]
  /\ UNCHANGED <<args, call, files, clock, prev, server>>

NextFront == CheckFront

SpecFront == InitFront /\ [][NextFront]_vars

\* the contract declares a verb and a path in every endpoint
DeclaresVerbAndPath(contract) ==
  \A i \in DOMAIN EntriesOf(contract) :
    LET e == EntriesOf(contract)[i]
    IN e.t = "obj" /\ e.method.t = "str" /\ e.method.s # <<>> /\ e.path.t = "str"
\* the call is in the endpoint set, verbs compared without regard to case
InEndpointSet(method, path, contract) ==
  \E i \in DOMAIN EntriesOf(contract) :
    /\ Upper(EntriesOf(contract)[i].method.s[1]) = method
    /\ EntriesOf(contract)[i].path.s = path
StrippedOfApi(path) == IF StartsWith(path, ApiBase) THEN Drop(path, Len(ApiBase)) ELSE path
\* the recovered calls no endpoint covers, with the path component of their URL
Uncovered(front_files, contract) ==
  LET used == [i \in DOMAIN UsedCalls(front_files) |->
                 [method |-> UsedCalls(front_files)[i].method,
                  path |-> UsedCalls(front_files)[i].url.path,
                  shown |-> CallPath(UsedCalls(front_files)[i].url)]]
      left == SelectSeq(used, LAMBDA c : /\ ~InEndpointSet(c.method, c.path, contract)
                                         /\ ~InEndpointSet(c.method, StrippedOfApi(c.path), contract))
  IN [i \in DOMAIN left |-> [method |-> left[i].method, path |-> left[i].shown]]

\* C12: check_front_vs_contract returns (True, None) exactly when every fetch
\* call recovered from the .js/.ts files has its (method, path) in the
\* contract's endpoint set, as is or after stripping /api from the path (no
\* call recovered included); otherwise it returns (False, message) and the
\* message lists exactly the uncovered calls.  Stated for contracts whose
\* endpoints all declare a verb and a path.
C12_CoveredExactly ==
  (check.on /\ check.pc = "returned" /\ DeclaresVerbAndPath(check.contract)
     /\ check.contract.endpoints.t # "scalar") =>
    /\ ~check.result.raised
    /\ check.result.val.ok <=> Uncovered(check.front_files, check.contract) = <<>>
    /\ check.result.val.ok => check.result.val.msg = None
    /\ ~check.result.val.ok =>
         /\ check.result.val.msg # None
         /\ check.result.val.missing = Uncovered(check.front_files, check.contract)

\* a call to /api/tasks has been accepted against an endpoint declared as /tasks
C12_Witness ==
  /\ check.on /\ check.pc = "returned"
  /\ check.front_files = <<ScriptFile(ScriptJs, <<Fetch(Url(<<>>, TasksPath), "")>>)>>
  /\ check.contract = Contract(Str(ApiBase), EndpointList(<<Endpoint(Verb("GET"), Str(ShortPath))>>))
  /\ check.result.val.ok

\* C13: check_front_vs_contract never raises: for every frontend file map
\* and every contract that can reach it (no endpoints key, null endpoints,
\* endpoints with missing or null fields, entries that are no objects) it
\* returns an (ok, error) pair.
C13_FrontCheckNeverRaises ==
  (check.on /\ check.pc = "returned") => ~check.result.raised

\* ---------------------------------------------------- _extract_code_blocks
\* A line of a draft.  A fence line is ``` followed by a tag of the characters
\* [a-zA-Z0-9_+-] and by `rest`, what the line holds after the tag and any
\* blanks ("" when the line ends there).  A word line holds one word of tag
\* characters; a path line holds a bare path; a comment line names a file
\* behind the marker # or //.
Fence(tag, rest) == [k |-> "fence", tag |-> tag, rest |-> rest, name |-> <<>>]
WordLine(w) == [k |-> "word", tag |-> w, rest |-> "", name |-> <<>>]
ProseLine == [k |-> "prose", tag |-> "", rest |-> "", name |-> <<>>]
PathLine(n) == [k |-> "path", tag |-> "", rest |-> "", name |-> n]
CommentLine(marker, n) == [k |-> "comment", tag |-> marker, rest |-> "", name |-> n]

\* the next ``` at or after line i, 0 when there is none
NextFence(lines, i) ==
  IF \E j \in i..Len(lines) : lines[j].k = "fence"
  THEN CHOOSE j \in i..Len(lines) : lines[j].k = "fence" /\ \A h \in i..(j - 1) : lines[h].k # "fence"
  ELSE 0

\* packager.py 31: content.splitlines()[:5]
FirstLines(content) == SubSeq(content, 1, IF Len(content) < 5 THEN Len(content) ELSE 5)
\* packager.py 32-46: a comment <!-- x.ext -->, // x.ext, /* x.ext */ or # x.ext
IsFilenameComment(l) == l.k = "comment"
\* packager.py 51-54: the one or two lines in front of the fence, the farther first
LookBack(lines, j) == SubSeq(lines, IF j > 2 THEN j - 2 ELSE 1, j - 1)
\* packager.py 56: ^[#>*\-\s]*(path)\s*$
IsPrefixedPath(l) == l.k = "path" \/ (l.k = "comment" /\ l.tag = "#")
\* packager.py 65: ^(path)\s*$
IsBarePath(l) == l.k = "path"

\* the pattern each heuristic matches its lines against
Matches(heuristic, l) ==
  CASE heuristic = "comment" -> IsFilenameComment(l)
    [] heuristic = "prefixed" -> IsPrefixedPath(l)
    [] heuristic = "bare" -> IsBarePath(l)

\* packager.py 32-46, 55-60, 64-68: the name of the first line of ls that
\* matches the heuristic's pattern, <<>> when none does
FirstName(ls, heuristic) ==
  IF \E n \in DOMAIN ls : Matches(heuristic, ls[n])
  THEN ls[CHOOSE n \in DOMAIN ls :
            Matches(heuristic, ls[n]) /\ \A m \in 1..(n - 1) : ~Matches(heuristic, ls[m])].name
  ELSE <<>>

\* the bare path of the block's first lines is asked before the lines in front
FilenameInnerFirst(lines, j, content) ==
  IF FirstName(FirstLines(content), "comment") # <<>>
    THEN FirstName(FirstLines(content), "comment")
  ELSE IF FirstName(FirstLines(content), "bare") # <<>>
    THEN FirstName(FirstLines(content), "bare")
  ELSE FirstName(LookBack(lines, j), "prefixed")

\* packager.py 28-68: the three heuristics, each asked when those before it
\* found nothing; <<>> stands for None
FilenameOf(lines, j, content) ==
  IF FirstName(FirstLines(content), "comment") # <<>>
    THEN FirstName(FirstLines(content), "comment")
  ELSE IF FirstName(LookBack(lines, j), "prefixed") # <<>>
    THEN FirstName(LookBack(lines, j), "prefixed")
  ELSE FirstName(FirstLines(content), "bare")

\* packager.py 23-70: pattern.finditer over ```\s*([a-zA-Z0-9_+-]*)\s*\r?\n(.*?)```.
\* A fence opens a block when nothing but blanks follows its tag; \s* runs
\* over the line end, so after a fence without a tag a word line is taken as
\* the tag.  The content runs to the next ```, whatever follows it there, and
\* the search goes on behind that one.
RECURSIVE ScanBlocks(_, _)
ScanBlocks(lines, i) ==
  LET j == NextFence(lines, i)
  IN IF j = 0 THEN <<>>
     ELSE IF lines[j].rest # "" THEN ScanBlocks(lines, j + 1)
     ELSE LET takes == lines[j].tag = "" /\ j < Len(lines) /\ lines[j + 1].k = "word"
              lang == IF takes THEN lines[j + 1].tag ELSE lines[j].tag
              start == IF takes THEN j + 2 ELSE j + 1
              k == NextFence(lines, start)
          IN IF k = 0 THEN <<>>
             ELSE <<Block(lang, FilenameOf(lines, j, SubSeq(lines, start, k - 1)),
                          SubSeq(lines, start, k - 1))>>
                    \o ScanBlocks(lines, k + 1)

\* packager.py 9-71; text is None or a sequence of lines
Draft(lines) == [none |-> FALSE, lines |-> lines]
NoDraft == [none |-> TRUE, lines |-> <<>>]
_extract_code_blocks(text) == Ok(ScanBlocks(IF text.none THEN <<>> ELSE text.lines, 1))

CmName == <<"c","m",".","p","y">>
InName == <<"i","n",".","p","y">>
PreName == <<"p","r","e",".","p","y">>
Pre2Name == <<"p","r","e","2",".","p","y">>
FenceLines == {Fence("", ""), Fence("python", ""), Fence("c", "#")}
\* drafts of fences, words and prose, one line shorter than the named drafts
FencedDrafts ==
  {Draft(ls) : ls \in SeqsUpTo(FenceLines \cup {WordLine("flask"), ProseLine}, MaxLines - 1)}
\* drafts of one block with lines in front of it
NamedDrafts ==
  {Draft(pre \o <<Fence("python", "")>> \o content \o <<Fence("", "")>>) :
     pre \in SeqsUpTo({ProseLine, PathLine(PreName), CommentLine("#", Pre2Name),
                       CommentLine("//", Pre2Name)}, 2),
     content \in SeqsUpTo({ProseLine, CommentLine("//", CmName), PathLine(InName)}, MaxLines)}

InitExtract ==
  /\ check \in [on : {TRUE}, pc : {"call"}, text : {NoDraft} \cup FencedDrafts \cup NamedDrafts,
                result : {Ok(<<>>)}]
  /\ args = Args("flask", NoneContract, PlainTask, FALSE, NoText, NoText)
  /\ call = FreshCall
  /\ files = <<>>
  /\ clock = 0
  /\ prev = NoArchive
  /\ server = NoServer

Extract ==
  /\ check.on
  /\ check.pc = "call"
  /\ check' = [check EXCEPT !.pc = "returned", !.result = _extract_code_blocks(check.text)]
  /\ UNCHANGED <<args, call, files, clock, prev, server>>

NextExtract == Extract

SpecExtract == InitExtract /\ [][NextExtract]_vars

\* The fenced regions of a text as Markdown reads them: a fence line opens a
\* region, the next fence line without a tag closes it, and a region that is
\* never closed is not well formed.
RECURSIVE FencedRegions(_, _)
FencedRegions(lines, i) ==
  LET j == NextFence(lines, i)
  IN IF j = 0 THEN <<>>
     ELSE IF \E k \in (j + 1)..Len(lines) : lines[k] = Fence("", "")
       THEN LET k == CHOOSE k \in (j + 1)..Len(lines) :
                       lines[k] = Fence("", "") /\ \A h \in (j + 1)..(k - 1) : lines[h] # Fence("", "")
            IN <<SubSeq(lines, j + 1, k - 1)>> \o FencedRegions(lines, k + 1)
       ELSE <<>>

\* C14: for every input text _extract_code_blocks returns exactly one block
\* per well-formed triple-backtick fenced region, in the order of the regions;
\* a text without a fence, empty or None, yields the empty list, and the call
\* never raises.
C14_OneBlockPerRegion ==
  (check.on /\ check.pc = "returned") =>
    LET regions == FencedRegions(check.text.lines, 1)
        blocks == check.result.val
    IN /\ ~check.result.raised
       /\ Len(blocks) = Len(regions)
       /\ \A n \in DOMAIN blocks :
            blocks[n].content = regions[n]
              \/ (regions[n] # <<>> /\ blocks[n].content = Tail(regions[n]))

CommentNames(ls) == {ls[n].name : n \in {m \in DOMAIN ls : IsFilenameComment(ls[m])}}
PrefixedPaths(ls) == {ls[n].name : n \in {m \in DOMAIN ls : IsPrefixedPath(ls[m])}}
BarePaths(ls) == {ls[n].name : n \in {m \in DOMAIN ls : IsBarePath(ls[m])}}
\* the line of the fence that opens the only block of a draft of NamedDrafts
OpenerOf(lines) == NextFence(lines, 1)

NotJson == [json |-> FALSE, value |-> NoneContract]
JsonText(value) == [json |-> TRUE, value |-> value]
json_loads(content) == IF content.json THEN Ok(content.value) ELSE Raise("JSONDecodeError")
\* (b.get("language") or "").lower() on the tags of these blocks
LowerTag(lang) == IF lang = "JSON" THEN "json" ELSE lang

\* validation.py 154-157
IsCandidate(b) ==
  LowerTag(b.language) = "json" \/ EndsWith(LowerText(b.filename), ContractName)

\* the scan gives up at the first candidate that is refused
RECURSIVE TryLoadFirstCandidate(_, _)
TryLoadFirstCandidate(blocks, has_jsonschema) ==
  IF blocks = <<>> THEN NoneContract
  ELSE IF ~IsCandidate(Head(blocks)) THEN TryLoadFirstCandidate(Tail(blocks), has_jsonschema)
  ELSE LET obj == json_loads(Head(blocks).content)
       IN IF ~obj.raised /\ validate_contract_minimal(obj.val, has_jsonschema).val.ok
          THEN obj.val ELSE NoneContract

\* validation.py 152-165; NoneContract stands for None
RECURSIVE try_load_contract_from_blocks(_, _)
try_load_contract_from_blocks(blocks, has_jsonschema) ==
  IF blocks = <<>> THEN NoneContract
  ELSE LET obj == json_loads(Head(blocks).content)
       IN IF /\ IsCandidate(Head(blocks))
             /\ ~obj.raised
             /\ validate_contract_minimal(obj.val, has_jsonschema).val.ok
          THEN obj.val
          ELSE try_load_contract_from_blocks(Tail(blocks), has_jsonschema)

\* validation.py 132-149: the routes found in the raw text, and /api as base
\* when one of them lies under it
infer_contract_from_backend(routes) ==
  Contract(Str(IF \E n \in DOMAIN routes : StartsWith(routes[n].path, ApiBase)
               THEN ApiBase ELSE <<"/">>),
           EndpointList([n \in DOMAIN routes |-> Endpoint(Verb(routes[n].method), Str(routes[n].path))]))

\* `not contract`: None, or a dict without a key
Falsy(contract) == contract.t = "none" \/ contract = EmptyContract

\* orchestrator.py 242-247: the contract of a run and where it came from
ResolveContract(back, qa, has_jsonschema) ==
  LET from_back == try_load_contract_from_blocks(back.blocks, has_jsonschema)
      from_qa == try_load_contract_from_blocks(qa.blocks, has_jsonschema)
  IN IF ~Falsy(from_back) THEN [contract |-> from_back, source |-> "back"]
     ELSE IF ~Falsy(from_qa) THEN [contract |-> from_qa, source |-> "qa"]
     ELSE [contract |-> infer_contract_from_backend(back.routes), source |-> "inferred"]

ContractPath == <<"d","o","c","s","/">> \o ContractName
UpperContractPath == <<"D","O","C","S","/","A","P","I","_","C","O","N","T","R","A","C","T",".","J","S","O","N">>
NoEndpointContract == Contract(Str(ApiBase), EndpointList(<<>>))
PathlessContract == Contract(Str(ApiBase), EndpointList(<<Endpoint(Verb("GET"), Absent)>>))
LoadContents ==
  {NotJson} \cup {JsonText(v) : v \in {EmptyContract, NonDictContract, NoEndpointContract,
                                        TasksContract, PathlessContract}}
LoadBlocks ==
  {Block(l, <<>>, c) : l \in {"json", "JSON", "python"}, c \in LoadContents}
    \cup {Block("python", UpperContractPath, c) : c \in LoadContents}
RawRoutes == {<<>>, <<[method |-> "GET", path |-> TasksPath]>>, <<[method |-> "POST", path |-> ShortPath]>>}
LoadBacks == {[blocks |-> bs, routes |-> r] : bs \in SeqsUpTo(LoadBlocks, MaxBlocks), r \in RawRoutes}
LoadQas ==
  {[blocks |-> bs] : bs \in {<<>>, <<Block("json", <<>>, JsonText(ReadOnlyContract))>>,
                             <<Block("json", <<>>, NotJson)>>}}

InitLoad ==
  /\ check \in [on : {TRUE}, pc : {"call"}, back : LoadBacks, qa : LoadQas, jsonschema : BOOLEAN,
                loaded : {NoneContract}, resolved : {[contract |-> NoneContract, source |-> ""]}]
  /\ args = Args("flask", NoneContract, PlainTask, FALSE, NoText, NoText)
  /\ call = FreshCall
  /\ files = <<>>
  /\ clock = 0
  /\ prev = NoArchive
  /\ server = NoServer

\* orchestrator.py 242-247
Resolve ==
  /\ check.on
  /\ check.pc = "call"
  /\ check' = [check EXCEPT !.pc = "returned",
                 !.loaded = try_load_contract_from_blocks(check.back.blocks, check.jsonschema),
                 !.resolved = ResolveContract(check.back, check.qa, check.jsonschema)]
  /\ UNCHANGED <<args, call, files, clock, prev, server>>

NextLoad == Resolve

SpecLoad == InitLoad /\ [][NextLoad]_vars

\* a block that names itself a contract, parses and validates
Qualifies(b, has_jsonschema) ==
  /\ LowerTag(b.language) = "json" \/ EndsWith(LowerText(b.filename), ContractName)
  /\ b.content.json
  /\ validate_contract_minimal(b.content.value, has_jsonschema).val.ok
FirstQualifying(blocks, has_jsonschema) ==
  IF \E n \in DOMAIN blocks : Qualifies(blocks[n], has_jsonschema)
  THEN blocks[CHOOSE n \in DOMAIN blocks :
                /\ Qualifies(blocks[n], has_jsonschema)
                /\ \A m \in 1..(n - 1) : ~Qualifies(blocks[m], has_jsonschema)].content.value
  ELSE NoneContract

\* C17: try_load_contract_from_blocks returns the contract of the first
\* block, in list order, that has the tag json or a filename ending in
\* api_contract.json, parses as JSON and passes validate_contract_minimal; a
\* candidate that does not parse or validate is skipped, and the result is
\* None when no candidate qualifies.
C17_FirstValidCandidate ==
  (check.on /\ check.pc = "returned") =>
    check.loaded = FirstQualifying(check.back.blocks, check.jsonschema)

\* a candidate that is no JSON and one that does not validate have been
\* passed over for the contract of the block behind them
C17_Witness ==
  /\ check.on /\ check.pc = "returned"
  /\ Len(check.back.blocks) = 2
  /\ check.back.blocks[1] \in {Block("json", <<>>, NotJson), Block("json", <<>>, JsonText(EmptyContract))}
  /\ check.back.blocks[2] = Block("python", UpperContractPath, JsonText(TasksContract))
  /\ check.loaded = TasksContract

\* the contract of a run is the first valid contract block of the backend
\* draft, else the first valid one of the QA draft, else the inferred one
ResolutionOrder ==
  (check.on /\ check.pc = "returned") =>
    LET b == FirstQualifying(check.back.blocks, check.jsonschema)
        q == FirstQualifying(check.qa.blocks, check.jsonschema)
    IN check.resolved.contract =
         (IF b # NoneContract THEN b
          ELSE IF q # NoneContract THEN q
          ELSE infer_contract_from_backend(check.back.routes))

\* ------------------------------------------------------------------ C16
\* the contract handed to the synthesizer declares no endpoint, and the
\* draft brings no file of its own
DeclaresNothing ==
  /\ args.contract \in {NoneContract, EmptyContract}
  /\ args.back.blocks = <<>>
\* a route other than the health check
ResourceRoute(l) == l.k = "route" /\ l.a # HealthPath

\* C16: the contract of a run is the first valid contract block of the
\* backend draft, else of the QA draft, else the inferred one; and when the
\* contract declares no endpoint, the synthesizer of every preset still
\* returns an archive with a default API that serves a resource, not only a
\* health check.
C16_DefaultApi ==
  (DeclaresNothing /\ call.pc \in {"done", "raised"}) =>
    /\ call.pc = "done"
    /\ \E i \in DOMAIN files : \E n \in DOMAIN files[i].content : ResourceRoute(files[i].content[n])

\* ------------------------------------------- _derive_schema_from_contract
TypedField(name, type) == [name |-> name, type |-> type]
SchemaFields ==
  {<<>>, <<TypedField(TitleField, "string")>>,
   <<TypedField(TitleField, "string"), TypedField(<<"d","o","n","e">>, "boolean")>>,
   <<TypedField(<<"a","g","e">>, "int")>>}
ItemPathOfTasks == TasksPath \o IdColon
SchemaEntries ==
  {Endpoint(Verb("GET"), Str(TasksPath)), Endpoint(Verb("POST"), Str(TasksPath)),
   Endpoint(Verb("POST"), Str(ApiBase \o <<"/">> \o UsersName)),
   Endpoint(Verb("PUT"), Str(ItemPathOfTasks))}
    \cup {EndpointWithRequest(Verb("POST"), Str(TasksPath), r) : r \in SchemaFields \ {<<>>}}
    \cup {EndpointWithBody(Verb("post"), Str(TasksPath), b) : b \in SchemaFields \ {<<>>}}
SchemaContracts ==
  {EmptyContract}
    \cup {Contract(b, EndpointList(es)) : b \in {Absent, Str(ApiBase)},
                                          es \in SeqsUpTo(SchemaEntries, MaxEndpoints)}

InitSchema ==
  /\ check \in [on : {TRUE}, pc : {"call"}, contract : SchemaContracts, resources : {<<>>}]
  /\ args = Args("flask", NoneContract, PlainTask, FALSE, NoText, NoText)
  /\ call = FreshCall
  /\ files = <<>>
  /\ clock = 0
  /\ prev = NoArchive
  /\ server = NoServer

\* packager.py 1033-1038: the resources of the enriched contract
DeriveSchema ==
  /\ check.on
  /\ check.pc = "call"
  /\ check' = [check EXCEPT !.pc = "returned", !.resources = Enrich(check.contract).val.resources]
  /\ UNCHANGED <<args, call, files, clock, prev, server>>

NextSchema == DeriveSchema

SpecSchema == InitSchema /\ [][NextSchema]_vars

\* the creation endpoints of a contract: POST on the first path under
\* base_url that has an extra segment
ResourceOf(contract) ==
  LET under == {n \in DOMAIN EntriesOf(contract) :
                  /\ StartsWith(EntriesOf(contract)[n].path.s, ApiBase \o <<"/">>)
                  /\ Len(EntriesOf(contract)[n].path.s) > Len(ApiBase) + 1}
  IN IF under = {} THEN <<>>
     ELSE FirstPart(Drop(EntriesOf(contract)[CHOOSE n \in under : \A m \in under : n <= m].path.s,
                         Len(ApiBase) + 1), "/")
CreationEndpoints(contract) ==
  {n \in DOMAIN EntriesOf(contract) :
     /\ Upper(EntriesOf(contract)[n].method.s[1]) = "POST"
     /\ EntriesOf(contract)[n].path.s = ApiBase \o <<"/">> \o ResourceOf(contract)}
\* the fields the creation endpoints declare in their request object
DeclaredRequest(contract) ==
  {f \in UNION {{e.request[i] : i \in DOMAIN e.request} :
                  e \in {EntriesOf(contract)[n] : n \in CreationEndpoints(contract)}} : TRUE}
\* a creation endpoint types its fields under the key body
DeclaresBody(contract) ==
  \E n \in CreationEndpoints(contract) : EntriesOf(contract)[n].body # <<>>
MappedType(t) ==
  CASE t = "int" -> "number" [] t = "boolean" -> "boolean" [] OTHER -> "string"

\* C18: the schema derived for a contract without resources has one required
\* field per name declared in the request object of the creation endpoint,
\* typed string, number or boolean; it is the single required string field
\* `name` only when that endpoint declares no field.
C18_SchemaFromRequest ==
  (check.on /\ check.pc = "returned") =>
    LET schema == check.resources[1].schema
        declared == DeclaredRequest(check.contract)
    IN /\ Len(check.resources) = 1
       /\ declared # {} =>
            /\ {schema[i].name : i \in DOMAIN schema} = {f.name : f \in declared}
            /\ \A i \in DOMAIN schema :
                 /\ schema[i].required
                 /\ \E f \in declared : f.name = schema[i].name /\ schema[i].type = MappedType(f.type)
       /\ (declared = {} /\ ~DeclaresBody(check.contract))
            => schema = <<[name |-> NameField, type |-> "string", required |-> TRUE]>>

\* ----------------------------------------------------------- _infer_resource
\* A text as the three patterns of _infer_resource read it: a sequence of
\* mentions of a noun.  "path" is a fragment /noun or /api/noun, "json_path" a
\* field "path": "/noun" (which holds such a fragment too), "crud_de" and
\* "crud_of" are the idioms `CRUD de noun` and `CRUD of noun`.
Mention(k, noun) == [k |-> k, noun |-> noun]
HealthName == <<"h","e","a","l","t","h">>
\* a letter with an accent: one of the idiom pattern's letters, none of [a-z0-9_-]
Accented == {"a_acute", "c_cedilla", "a_tilde"}

\* packager.py 192-195: re.findall of the fragment pattern, health left out
PathHits(t) ==
  LET hits == SelectSeq(t, LAMBDA m : m.k \in {"path", "json_path"} /\ LowerText(m.noun) # HealthName)
  IN [i \in DOMAIN hits |-> LowerText(hits[i].noun)]
\* packager.py 197-198: re.findall of the field pattern
JsonHits(t) ==
  LET hits == SelectSeq(t, LAMBDA m : m.k = "json_path")
  IN [i \in DOMAIN hits |-> LowerText(hits[i].noun)]
\* packager.py 200-205: re.search of an idiom, its first occurrence only
IdiomHit(t, k) ==
  LET hits == SelectSeq(t, LAMBDA m : m.k = k)
  IN IF hits = <<>> THEN <<>> ELSE <<LowerText(hits[1].noun)>>
\* packager.py 190-205: the candidates of one text, pattern by pattern
CandidatesOf(t) == PathHits(t) \o JsonHits(t) \o IdiomHit(t, "crud_de") \o IdiomHit(t, "crud_of")
\* packager.py 188-190: texts = [task, front, back, qa]
Candidates(texts) ==
  CandidatesOf(texts[1]) \o CandidatesOf(texts[2]) \o CandidatesOf(texts[3]) \o CandidatesOf(texts[4])

\* Counter(candidates): the names in the order of their first occurrence, counted
Bump(tally, c) ==
  IF \E i \in DOMAIN tally : tally[i].name = c
  THEN [i \in DOMAIN tally |-> IF tally[i].name = c
                               THEN [name |-> c, count |-> tally[i].count + 1] ELSE tally[i]]
  ELSE Append(tally, [name |-> c, count |-> 1])
RECURSIVE Tally(_, _)
Tally(candidates, tally) ==
  IF candidates = <<>> THEN tally ELSE Tally(Tail(candidates), Bump(tally, Head(candidates)))

\* among the names of the highest count, the one that came last
LastMostCommon(tally) ==
  tally[CHOOSE i \in DOMAIN tally :
          /\ \A j \in DOMAIN tally : tally[j].count <= tally[i].count
          /\ \A j \in (i + 1)..Len(tally) : tally[j].count < tally[i].count].name

\* most_common(1)[0][0]: max() over the items keeps the first of the highest count
MostCommon(tally) ==
  tally[CHOOSE i \in DOMAIN tally :
          /\ \A j \in DOMAIN tally : tally[j].count <= tally[i].count
          /\ \A j \in 1..(i - 1) : tally[j].count < tally[i].count].name

\* packager.py 210-213
StripIdSuffix(resource) ==
  LET cut == IF EndsWith(resource, <<"/",":">>)
             THEN SubSeq(resource, 1,
                         CHOOSE i \in 0..(Len(resource) - 2) :
                           /\ SubSeq(resource, i + 1, i + 2) = <<"/",":">>
                           /\ \A j \in 0..(i - 1) : SubSeq(resource, j + 1, j + 2) # <<"/",":">>)
             ELSE resource
  IN IF EndsWith(cut, <<":","i","d">>) THEN SubSeq(cut, 1, Len(cut) - 3) ELSE cut
\* packager.py 214-220
Pluralize(resource) ==
  IF EndsWith(resource, <<"s">>) THEN resource
  ELSE IF EndsWith(resource, <<"m">>) THEN SubSeq(resource, 1, Len(resource) - 1) \o <<"n","s">>
  ELSE IF EndsWith(resource, <<"y">>) THEN SubSeq(resource, 1, Len(resource) - 1) \o <<"i","e","s">>
  ELSE resource \o <<"s">>
\* packager.py 221: re.sub(r"[^a-z0-9_-]", "", resource)
KeepNameChars(resource) == SelectSeq(resource, LAMBDA ch : ch \in LowerLetters \cup Digits \cup {"_", "-"})

\* packager.py 181-222
_infer_resource(task, front, back, qa) ==
  LET candidates == Candidates(<<task, front, back, qa>>)
      resource == IF candidates # <<>> THEN MostCommon(Tally(candidates, <<>>)) ELSE UsersName
  IN KeepNameChars(Pluralize(StripIdSuffix(resource)))

ProdutoName == <<"P","r","o","d","u","t","o">>
ItemName == <<"i","t","e","m">>
CategoryName == <<"c","a","t","e","g","o","r","y">>
UsuariosName == <<"u","s","u","a_acute","r","i","o","s">>
AcaoName == <<"a","c_cedilla","a_tilde","o">>
Mentions ==
  {Mention(k, n) : k \in {"path", "json_path", "crud_de"}, n \in {TasksName, ProdutoName}}
    \cup {Mention("json_path", ItemName), Mention("crud_of", CategoryName),
          Mention("crud_de", UsuariosName), Mention("crud_de", AcaoName), Mention("path", HealthName)}
TaskTexts == SeqsUpTo(Mentions, MaxMentions)
FrontTexts == {<<>>, <<Mention("path", ProdutoName)>>}
BackTexts ==
  {<<>>, <<Mention("path", ItemName)>>, <<Mention("crud_de", ProdutoName)>>,
   <<Mention("json_path", TasksName)>>}
QaMentions == {<<>>, <<Mention("json_path", ItemName)>>}

InitInfer ==
  /\ check \in [on : {TRUE}, pc : {"call"}, task : TaskTexts, front : FrontTexts, back : BackTexts,
                qa : QaMentions, result : {<<>>}]
  /\ args = Args("flask", NoneContract, PlainTask, FALSE, NoText, NoText)
  /\ call = FreshCall
  /\ files = <<>>
  /\ clock = 0
  /\ prev = NoArchive
  /\ server = NoServer

Infer ==
  /\ check.on
  /\ check.pc = "call"
  /\ check' = [check EXCEPT !.pc = "returned",
                 !.result = _infer_resource(check.task, check.front, check.back, check.qa)]
  /\ UNCHANGED <<args, call, files, clock, prev, server>>

NextInfer == Infer

SpecInfer == InitInfer /\ [][NextInfer]_vars

\* the candidates in the order the scan meets them: text by text, and in a
\* text the path fragments, then the path fields, then the idioms
Seen == Candidates(<<check.task, check.front, check.back, check.qa>>)
Occurrences(seen, c) == Cardinality({i \in DOMAIN seen : seen[i] = c})
FirstSeenAt(seen, c) == CHOOSE i \in DOMAIN seen : seen[i] = c /\ \A j \in 1..(i - 1) : seen[j] # c
\* the most frequent candidate, the one seen first among equals
ChosenOf(seen) ==
  CHOOSE c \in {seen[i] : i \in DOMAIN seen} :
    \A d \in {seen[i] : i \in DOMAIN seen} :
      \/ Occurrences(seen, d) < Occurrences(seen, c)
      \/ Occurrences(seen, d) = Occurrences(seen, c) /\ FirstSeenAt(seen, c) <= FirstSeenAt(seen, d)
Chosen == LET seen == Seen IN ChosenOf(seen)
\* the name of a candidate: its plural in the letters a name may hold
NameOf(c) == KeepNameChars(Pluralize(c))

C20_AlwaysPlural ==
  (check.on /\ check.pc = "returned") =>
    /\ check.result # <<>> /\ check.result[Len(check.result)] = "s"
    /\ Seen # <<>> =>
         LET c == Chosen
             stem == SubSeq(c, 1, Len(c) - 1)
         IN /\ c[Len(c)] # "s" => check.result # c
            /\ c[Len(c)] = "y" => check.result = stem \o <<"i","e","s">>
            /\ c[Len(c)] = "m" => check.result = stem \o <<"n","s">>
            /\ c[Len(c)] \notin {"y", "m", "s"} => check.result = c \o <<"s">>
            /\ c[Len(c)] = "s" => check.result = c

\* ------------------------------------------- _sanitize_java_entity_table
\* Lines of a Java entity file: package x; / import x; / import
\* jakarta.persistence.Table; / @Entity / @Table(name = "x") / public class X
\* / a member.
UserTable == <<"u","s","e","r">>
TableImport == Ln("table_import")
ImportKinds == {"jimport", "jimport_javax", "table_import"}

\* packager.py 312: @Table(name="user") becomes @Table(name="users")
RenameUserTable(lines) ==
  [i \in DOMAIN lines |->
     IF lines[i].k = "table" /\ lines[i].a = UserTable THEN LnA("table", UsersName) ELSE lines[i]]

\* packager.py 315-316: the name after the first `class`, "" when there is none
FirstClassName(lines) ==
  LET classes == {i \in DOMAIN lines : lines[i].k = "public_class"}
  IN IF classes = {} THEN <<>> ELSE lines[CHOOSE i \in classes : \A j \in classes : i <= j].a

\* packager.py 321-329: @Table(name = "users") after the first line that
\* starts with @Entity
InsertTable(lines) ==
  LET entities == {i \in DOMAIN lines : lines[i].k = "entity"}
      first == CHOOSE i \in entities : \A j \in entities : i <= j
  IN IF entities = {} THEN lines
     ELSE SubSeq(lines, 1, first) \o <<LnA("table", UsersName)>> \o Drop(lines, first)

\* the import is put in front of the file, whatever the file begins with
ImportInFront(lines) == <<TableImport>> \o lines

\* packager.py 332-345: the import lines, the new import, then the other lines
InsertTableImport(lines) ==
  LET import_lines == SelectSeq(lines, LAMBDA ln : ln.k \in ImportKinds)
      other_lines == SelectSeq(lines, LAMBDA ln : ln.k \notin ImportKinds)
  IN IF HasLine(lines, {"table_import"}) THEN lines
     ELSE IF import_lines # <<>> THEN import_lines \o <<TableImport>> \o other_lines
     ELSE <<TableImport>> \o lines

\* packager.py 302-347
_sanitize_java_entity_table(content) ==
  LET text == RenameUserTable(content)
  IN IF ~HasLine(content, {"entity"}) THEN content
     ELSE IF LowerText(FirstClassName(text)) = UserTable /\ ~HasLine(text, {"table"})
       THEN InsertTableImport(InsertTable(text))
     ELSE text

\* the entries of the archive that hold an entity class named User
UserEntityFiles ==
  {i \in DOMAIN files : /\ HasLine(files[i].content, {"entity"})
                        /\ FirstClassName(files[i].content) = UserClassName}

\* C21: a model-provided @Entity class named User that has no @Table
\* annotation is emitted with exactly one @Table annotation, and that one
\* names the table users; stated of the spring-preset structured archive.
C21_UserEntityHasTable ==
  \A i \in UserEntityFiles :
    args.preset = "spring" =>
    /\ CountKinds(files[i].content, {"table"}) = 1
    /\ \A n \in DOMAIN files[i].content :
         files[i].content[n].k = "table" => files[i].content[n].a = UsersName

\* ------------------------------------------------------ the client script
ScriptJsName == <<"s","c","r","i","p","t",".","j","s">>
ClientScripts == {i \in DOMAIN files : files[i].dir = <<"frontend">> /\ files[i].name = ScriptJsName}
\* the schema of the enriched contract has a boolean field
SchemaHasBoolean ==
  \E r \in DOMAIN call.contract.resources :
    \E f \in DOMAIN call.contract.resources[r].schema :
      call.contract.resources[r].schema[f].type = "boolean"

\* C22: the regenerated client script is the checklist one exactly when the
\* resource schema has a boolean field, or the task text holds a todo idiom
\* and not the word crud; in every other case it is the tabular one.
C22_ChecklistExactly ==
  \A i \in ClientScripts :
    HasLine(files[i].content, {"checklist_script"})
      <=> (SchemaHasBoolean \/ (args.task.todo /\ ~args.task.crud))

\* ------------------------------------------------------------ entry names
\* the entries written from the blocks of the backend draft and the test plan
DraftEntries == {i \in DOMAIN files : files[i].dir # <<>> /\ files[i].dir[1] \in {"backend", "qa"}}

\* C23: no entry written under backend/ or qa/ leaves its subtree: its name
\* holds no directory separator (so no `..` segment, no absolute path and no
\* directory of the draft's choosing), and no segment of its directory is
\* `..` or empty.
C23_NamesStayInSubtree ==
  \A i \in DraftEntries :
    /\ \A n \in DOMAIN files[i].name : files[i].name[n] \notin {"/", "\\"}
    /\ \A n \in DOMAIN files[i].dir : files[i].dir[n] \notin {"..", ""}

\* -------------------------------------------------- _sanitize_flask_python
MaxPyLines == 4
\* the lines of a Python draft: imports of one name and of a list of names, a
\* route decorator, statements at the
\* margin and indented, the __main__ guard, app.run(...), app = Flask(__name__),
\* Flask(__name__, ...) with more arguments, Blueprint(...), a blank line and
\* `from . import app`
PyLineKinds == {"import", "import_list", "app_route", "code", "code_ind", "main_guard", "app_run", "app_run_ind",
                "flask_inst", "flask_inst_args", "blueprint", "blank", "import_shared_app"}
PyDrafts == SeqsUpTo({Ln(k) : k \in PyLineKinds}, MaxPyLines)

InitFlask ==
  /\ check \in [on : {TRUE}, pc : {"call"}, text : PyDrafts, result : {<<>>}]
  /\ args = Args("flask", NoneContract, PlainTask, FALSE, NoText, NoText)
  /\ call = FreshCall
  /\ files = <<>>
  /\ clock = 0
  /\ prev = NoArchive
  /\ server = NoServer

\* packager.py 91-133
SanitizeFlask ==
  /\ check.on
  /\ check.pc = "call"
  /\ check' = [check EXCEPT !.pc = "returned", !.result = _sanitize_flask_python(check.text)]
  /\ UNCHANGED <<args, call, files, clock, prev, server>>

NextFlask == SanitizeFlask

SpecFlask == InitFlask /\ [][NextFlask]_vars

\* the file as it is after the removals, and whether the call added the import
Sanitized == FlaskKeep(check.text, FALSE)
SharedImports(lines) == CountKinds(lines, {"import_shared_app"})
ImportInjected == SharedImports(check.result) = SharedImports(Sanitized) + 1

\* C24: `from . import app` is injected exactly when the sanitized file has a
\* route on the shared app object, does not instantiate Flask, defines no
\* Blueprint and does not hold the import already; in particular a file that
\* still instantiates Flask gets no import.
C24_ImportWhenRoutesOnly ==
  check.pc = "returned" =>
    /\ SharedImports(check.result) \in {SharedImports(Sanitized), SharedImports(Sanitized) + 1}
    /\ ImportInjected <=> /\ HasLine(Sanitized, {"app_route"})
                          /\ ~HasLine(Sanitized, {"flask_inst_args"})
                          /\ ~HasLine(Sanitized, {"blueprint"})
                          /\ ~HasLine(Sanitized, {"import_shared_app"})

\* The removals as stated: the guard header and the indented lines under it,
\* app.run(...) lines and app = Flask(__name__) lines; the first line that is
\* not indented ends the block and is treated as any other line.
RECURSIVE StatedKeep(_, _)
StatedKeep(lines, in_guard) ==
  IF lines = <<>> THEN <<>>
  ELSE LET ln == Head(lines)
       IN IF ln.k = "main_guard" THEN StatedKeep(Tail(lines), TRUE)
          ELSE IF in_guard /\ ln.k \in {"app_run_ind", "code_ind"} THEN StatedKeep(Tail(lines), TRUE)
          ELSE IF ln.k \in {"app_run", "app_run_ind", "flask_inst"} THEN StatedKeep(Tail(lines), FALSE)
          ELSE <<ln>> \o StatedKeep(Tail(lines), FALSE)

\* the lines of a file that the import injection neither adds nor cuts
InputLines(lines) ==
  SelectSeq(lines, LAMBDA ln : ln.k \notin {"import_shared_app", "import_list", "import_cut",
                                             "import_rest", "blank"})

\* C26: _sanitize_flask_python removes the lines of a __main__ guard block,
\* the app.run(...) lines and the app = Flask(__name__) lines and no other:
\* every other input line, the first line behind a guard block included, is
\* in the output, in its original order.
C26_OnlyGuardRunAndInstanceRemoved ==
  check.pc = "returned" => InputLines(check.result) = InputLines(StatedKeep(check.text, FALSE))

\* ---------------------------------------------------- _sanitize_express_js
MaxJsLines == 5
\* the lines of a JavaScript draft: a statement, `function f() {`, `}`, `});`,
\* `if (require.main === module) {`, app.listen(...) on one line and
\* `app.listen(port, () => {`
JsLineKinds == {"code", "block_open", "close_brace", "close_call", "require_main", "app_listen",
                "listen_open"}
JsDrafts == SeqsUpTo({Ln(k) : k \in JsLineKinds}, MaxJsLines)

InitExpress ==
  /\ check \in [on : {TRUE}, pc : {"call"}, text : JsDrafts, result : {<<>>}]
  /\ args = Args("express", NoneContract, PlainTask, FALSE, NoText, NoText)
  /\ call = FreshCall
  /\ files = <<>>
  /\ clock = 0
  /\ prev = NoArchive
  /\ server = NoServer

\* packager.py 136-166
SanitizeExpress ==
  /\ check.on
  /\ check.pc = "call"
  /\ check' = [check EXCEPT !.pc = "returned", !.result = _sanitize_express_js(check.text)]
  /\ UNCHANGED <<args, call, files, clock, prev, server>>

NextExpress == SanitizeExpress

SpecExpress == InitExpress /\ [][NextExpress]_vars

\* braces opened and not yet closed after the first n lines
DepthAt(lines, n) == SumBraces(SubSeq(lines, 1, n))
Balanced(lines) ==
  /\ SumBraces(lines) = 0
  /\ \A n \in DOMAIN lines : DepthAt(lines, n) >= 0
\* the line that closes the block opened at line i, 0 when there is none
MatchingClose(lines, i) ==
  LET closes == {j \in (i + 1)..Len(lines) : DepthAt(lines, j) = DepthAt(lines, i) - 1}
  IN IF closes = {} THEN 0 ELSE CHOOSE j \in closes : \A h \in closes : j <= h
\* a balanced draft with `if (require.main === module) {` at line i and
\* nothing else the sanitizer is to remove outside of that block
OneMainBlock(lines, i) ==
  /\ Balanced(lines)
  /\ lines[i].k = "require_main"
  /\ lines[MatchingClose(lines, i)].k = "close_brace"
  /\ \A n \in DOMAIN lines :
       (n < i \/ n > MatchingClose(lines, i)) => lines[n].k \notin {"require_main", "app_listen", "listen_open"}

\* C25: the whole `if (require.main === module) { ... }` block is removed:
\* every line from the header to the matching closing brace is absent from
\* the output, the lines in front of it and behind it are preserved, and the
\* braces of the output are balanced as those of the input were.
C25_WholeMainBlockRemoved ==
  check.pc = "returned" =>
    \A i \in DOMAIN check.text :
      OneMainBlock(check.text, i) =>
        /\ check.result = SubSeq(check.text, 1, i - 1) \o Drop(check.text, MatchingClose(check.text, i))
        /\ Balanced(check.result)

\* ------------------------------------------------------------ handler names
\* the routing modules generated from the contract's endpoints: Flask main.py
\* and Spring ApiController.java
ContractModules ==
  {i \in DOMAIN files : /\ args.preset \in {"flask", "spring"}
                        /\ HasLine(files[i].content, {"required"})}
Handlers(content) == {n \in DOMAIN content : content[n].k = "route" /\ content[n].f # <<>>}

\* C27: in the routing module generated from a contract no two handlers have
\* the same function or method name, whatever the contract's endpoints.
C27_DistinctHandlerNames ==
  \A i \in ContractModules :
    \A n, k \in Handlers(files[i].content) :
      n # k => files[i].content[n].f # files[i].content[k].f

\* ----------------------------------------------------- entity files
MaxJavaLines == 4
\* the lines of a Java entity draft
JavaLines ==
  {LnA("package", <<"org", "acme", "model">>), Ln("jimport"), TableImport, Ln("entity"),
   LnA("table", UserTable), LnA("table", UsersName), LnA("public_class", UserClassName),
   LnA("public_class", <<"T","a","s","k">>), Ln("code")}
JavaDrafts == SeqsUpTo(JavaLines, MaxJavaLines)

InitEntity ==
  /\ check \in [on : {TRUE}, pc : {"call"}, text : JavaDrafts, result : {<<>>}]
  /\ args = Args("spring", NoneContract, PlainTask, FALSE, NoText, NoText)
  /\ call = FreshCall
  /\ files = <<>>
  /\ clock = 0
  /\ prev = NoArchive
  /\ server = NoServer

\* packager.py 302-347
SanitizeEntity ==
  /\ check.on
  /\ check.pc = "call"
  /\ check' = [check EXCEPT !.pc = "returned", !.result = _sanitize_java_entity_table(check.text)]
  /\ UNCHANGED <<args, call, files, clock, prev, server>>

NextEntity == SanitizeEntity

SpecEntity == InitEntity /\ [][NextEntity]_vars

\* the lines of sub are lines of s, in the same order
RECURSIVE IsSubsequence(_, _)
IsSubsequence(sub, s) ==
  IF sub = <<>> THEN TRUE
  ELSE IF s = <<>> THEN FALSE
  ELSE IF Head(sub) = Head(s) THEN IsSubsequence(Tail(sub), Tail(s))
  ELSE IsSubsequence(sub, Tail(s))

PackageFirst(lines) ==
  \A n, k \in DOMAIN lines :
    (lines[n].k = "package" /\ lines[k].k \in ImportKinds) => n < k

\* C28: _sanitize_java_entity_table only adds lines to an entity file: the
\* original lines (a table name user written as users) are in the output in
\* their original order, and a package declaration that was in front of the
\* imports is in front of every import of the output.
C28_OnlyAddsLines ==
  (check.pc = "returned" /\ HasLine(check.text, {"entity"})) =>
    /\ IsSubsequence(RenameUserTable(check.text), check.result)
    /\ PackageFirst(check.text) => PackageFirst(check.result)

\* ------------------------------------------------- Orchestrator.run_all
\* What an agent answers: nothing, or a text with fenced blocks; for a
\* backend text also the routes a scan of the raw text finds.
AgentText(blocks, routes) == [blank |-> FALSE, blocks |-> blocks, routes |-> routes]
NoReply == [blank |-> TRUE, blocks |-> <<>>, routes |-> <<>>]
\* a prompt quotes the outputs it was built from; "" is the prompt never built
NoPrompt == [built |-> FALSE, front |-> NoReply, back |-> NoReply]
Prompt(front, back) == [built |-> TRUE, front |-> front, back |-> back]

FrontendScriptJs == <<"f","r","o","n","t","e","n","d","/">> \o ScriptJs
FrontendScriptTs == <<"f","r","o","n","t","e","n","d","/","s","c","r","i","p","t",".","t","s">>
ScriptLanguages == {"javascript", "js", "typescript", "ts"}

\* front_files[path] = content: a known path keeps its place in the map
PutFile(front_files, path, content) ==
  IF \E i \in DOMAIN front_files : front_files[i].name = path
  THEN [i \in DOMAIN front_files |->
          IF front_files[i].name = path THEN ScriptFile(path, content) ELSE front_files[i]]
  ELSE Append(front_files, ScriptFile(path, content))

\* orchestrator.py 252-258: the script blocks of the front output, by path
RECURSIVE ScriptBlocks(_, _)
ScriptBlocks(front_blocks, front_files) ==
  IF front_blocks = <<>> THEN front_files
  ELSE LET b == Head(front_blocks)
           lang == LowerTag(b.language)
           path == IF b.filename # <<>> THEN b.filename
                   ELSE IF lang \in {"javascript", "js"} THEN FrontendScriptJs
                   ELSE FrontendScriptTs
       IN ScriptBlocks(Tail(front_blocks),
                       IF lang \in ScriptLanguages THEN PutFile(front_files, path, b.content)
                       ELSE front_files)

\* the fetch calls of a whole text: those of its blocks, in order
RECURSIVE TextCalls(_)
TextCalls(blocks) == IF blocks = <<>> THEN <<>> ELSE Head(blocks).content \o TextCalls(Tail(blocks))

\* orchestrator.py 250-261: without a script block the whole text is the script
FrontFilesOf(front_out) ==
  LET front_files == ScriptBlocks(front_out.blocks, <<>>)
  IN IF front_files = <<>> /\ ~front_out.blank
     THEN <<ScriptFile(FrontendScriptJs, TextCalls(front_out.blocks))>>
     ELSE front_files

\* orchestrator.py 242-277: the validation of a run and what run_all returns
RunResult(front_out, back_out, qa_out, has_jsonschema) ==
  LET contract == ResolveContract(back_out, qa_out, has_jsonschema).contract
      minimal == validate_contract_minimal(contract, has_jsonschema)
      integration == check_front_vs_contract(FrontFilesOf(front_out), contract)
  IN IF minimal.raised THEN minimal
     ELSE IF integration.raised THEN integration
     ELSE Ok([front |-> front_out, back |-> back_out, qa |-> qa_out, contract |-> contract,
              validation |-> [contract_ok |-> minimal.val.ok, contract_error |-> minimal.val.msg,
                              integration_ok |-> integration.val.ok,
                              integration_error |-> integration.val.msg]])

\* the answers of the agents
ScriptReply == AgentText(<<Block("js", <<>>, <<Fetch(Url(<<>>, TasksPath), "")>>)>>, <<>>)
AlignedReply == AgentText(<<Block("js", ScriptJs, <<Fetch(Url(<<>>, TasksPath), "post")>>)>>, <<>>)
PageReply == AgentText(<<Block("html", IndexHtml, <<Fetch(Url(<<>>, ShortPath), "")>>)>>, <<>>)
FrontReplies == {NoReply, ScriptReply, AlignedReply, PageReply}
TasksRoutes == <<[method |-> "GET", path |-> TasksPath]>>
ContractReply == AgentText(<<Block("json", <<>>, JsonText(TasksContract))>>, TasksRoutes)
RoutesReply == AgentText(<<Block("python", <<>>, NotJson)>>, TasksRoutes)
NamesReply ==
  AgentText(<<Block("json", <<>>, JsonText(Contract(Str(ApiBase), EndpointList(<<NonObjectEntry>>))))>>, <<>>)
BackReplies == {NoReply, ContractReply, RoutesReply, NamesReply}
QaReplies == {NoReply, AgentText(<<Block("json", <<>>, JsonText(ReadOnlyContract))>>, <<>>)}
AgentNames == {"front", "back", "qa"}

FreshRun(agents_to_run, has_jsonschema) ==
  [on |-> TRUE, pc |-> "front", agents_to_run |-> agents_to_run, jsonschema |-> has_jsonschema,
   front_out_initial |-> NoReply, front_out_final |-> NoReply, front_out |-> NoReply,
   back_out |-> NoReply, qa_out |-> NoReply,
   front_prompt |-> NoPrompt, back_prompt_context |-> NoPrompt,
   front_align_prompt |-> NoPrompt, qa_prompt_context |-> NoPrompt,
   steps |-> <<>>, history_prompts |-> <<>>, result |-> Ok(<<>>)]

InitRun ==
  /\ check \in {FreshRun(a, j) : a \in SUBSET AgentNames, j \in BOOLEAN}
  /\ args = Args("flask", NoneContract, PlainTask, FALSE, NoText, NoText)
  /\ call = FreshCall
  /\ files = <<>>
  /\ clock = 0
  /\ prev = NoArchive
  /\ server = NoServer

\* orchestrator.py 136-149
FrontScaffold ==
  /\ check.on
  /\ check.pc = "front"
  /\ IF "front" \in check.agents_to_run
     THEN \E out \in FrontReplies :
            check' = [check EXCEPT !.pc = "back", !.front_prompt = Prompt(NoReply, NoReply),
                        !.front_out_initial = out, !.front_out = out,
                        !.steps = Append(@, "scaffold")]
     ELSE check' = [check EXCEPT !.pc = "back"]
  /\ UNCHANGED <<args, call, files, clock, prev, server>>

\* orchestrator.py 152-166
BackGenerate ==
  /\ check.on
  /\ check.pc = "back"
  /\ IF "back" \in check.agents_to_run
     THEN \E out \in BackReplies :
            check' = [check EXCEPT !.pc = "align",
                        !.back_prompt_context = Prompt(check.front_out, NoReply),
                        !.back_out = out, !.steps = Append(@, "back")]
     ELSE check' = [check EXCEPT !.pc = "align"]
  /\ UNCHANGED <<args, call, files, clock, prev, server>>

\* orchestrator.py 169-182
FrontAlign ==
  /\ check.on
  /\ check.pc = "align"
  /\ IF "front" \in check.agents_to_run /\ "back" \in check.agents_to_run
     THEN \E out \in FrontReplies :
            check' = [check EXCEPT !.pc = "qa",
                        !.front_align_prompt = Prompt(NoReply, check.back_out),
                        !.front_out_final = out,
                        !.front_out = IF ~out.blank THEN out ELSE check.front_out_initial,
                        !.steps = Append(@, "align")]
     ELSE check' = [check EXCEPT !.pc = "qa"]
  /\ UNCHANGED <<args, call, files, clock, prev, server>>

\* orchestrator.py 185-196
QaGenerate ==
  /\ check.on
  /\ check.pc = "qa"
  /\ IF "qa" \in check.agents_to_run
     THEN \E out \in QaReplies :
            check' = [check EXCEPT !.pc = "persist",
                        !.qa_prompt_context = Prompt(check.front_out, check.back_out),
                        !.qa_out = out, !.steps = Append(@, "qa")]
     ELSE check' = [check EXCEPT !.pc = "persist"]
  /\ UNCHANGED <<args, call, files, clock, prev, server>>

\* orchestrator.py 219-233: one row per prompt of a selected agent that was built
LoggedPrompts(run) ==
  (IF "front" \in run.agents_to_run /\ run.front_prompt.built THEN <<"scaffold">> ELSE <<>>)
    \o (IF "back" \in run.agents_to_run /\ run.back_prompt_context.built THEN <<"back">> ELSE <<>>)
    \o (IF "front" \in run.agents_to_run /\ run.front_align_prompt.built THEN <<"align">> ELSE <<>>)
    \o (IF "qa" \in run.agents_to_run /\ run.qa_prompt_context.built THEN <<"qa">> ELSE <<>>)

\* orchestrator.py 199-238
PersistRun ==
  /\ check.on
  /\ check.pc = "persist"
  /\ check' = [check EXCEPT !.pc = "validate", !.history_prompts = LoggedPrompts(check)]
  /\ UNCHANGED <<args, call, files, clock, prev, server>>

\* orchestrator.py 242-277
ValidateRun ==
  /\ check.on
  /\ check.pc = "validate"
  /\ LET r == RunResult(check.front_out, check.back_out, check.qa_out, check.jsonschema)
     IN check' = [check EXCEPT !.pc = IF r.raised THEN "raised" ELSE "returned", !.result = r]
  /\ UNCHANGED <<args, call, files, clock, prev, server>>

NextRun == FrontScaffold \/ BackGenerate \/ FrontAlign \/ QaGenerate \/ PersistRun \/ ValidateRun

SpecRun == InitRun /\ [][NextRun]_vars

\* the steps of a run that has left the agents behind
RunSteps == <<"scaffold", "back", "align", "qa">>
Selected(step, agents_to_run) ==
  CASE step = "scaffold" -> "front" \in agents_to_run
    [] step = "back" -> "back" \in agents_to_run
    [] step = "align" -> "front" \in agents_to_run /\ "back" \in agents_to_run
    [] step = "qa" -> "qa" \in agents_to_run
AgentsDone == check.pc \in {"persist", "validate", "returned", "raised"}

\* the order of the steps, what each receives and what is logged
StepsAndPrompts ==
  (check.on /\ AgentsDone) =>
    /\ check.steps = SelectSeq(RunSteps, LAMBDA s : Selected(s, check.agents_to_run))
    /\ check.back_prompt_context.built => check.back_prompt_context.front = check.front_out_initial
    /\ check.front_out = IF ~check.front_out_final.blank THEN check.front_out_final
                         ELSE check.front_out_initial
    /\ check.qa_prompt_context.built =>
         check.qa_prompt_context = Prompt(check.front_out, check.back_out)
    /\ check.pc # "persist" => check.history_prompts = check.steps

\* C29: in Orchestrator.run_all the agent steps run in the order front
\* scaffold, back, front alignment, QA, each only when selected; the back
\* step receives the scaffold output; alignment runs exactly when front and
\* back are both selected; the final front output is the alignment output
\* when that is non-empty and the scaffold output otherwise; QA receives the
\* final front output and the back output; a prompt is logged only for a
\* step that ran; and the validation of the contract is attached to the
\* returned result without blocking it: the run never ends in an exception
\* of the validation.
C29_RunOrderAndAdvisoryValidation ==
  /\ StepsAndPrompts
  /\ check.on => check.pc # "raised"
  /\ (check.on /\ check.pc = "returned") =>
       /\ check.result.val.front = check.front_out
       /\ check.result.val.validation.contract_ok \in BOOLEAN
       /\ check.result.val.validation.integration_ok \in BOOLEAN

\* ------------------------------------------------------------ auth tokens
MaxUid == 2      \* user ids
MaxTokens == 2   \* tokens issued in one process
MaxSleeps == 2   \* times the clock is moved forward
\* auth.py 89 and 106: the default ages, in seconds
TokenMaxAge == 604800
ResetTokenMaxAge == 3600

\* What URLSafeTimedSerializer.dumps signs: the payload, the time of signing
\* and the key.  A payload without "type" has kind "".
SignedToken(uid, kind, now, key) == [uid |-> uid, kind |-> kind, iat |-> now, ts |-> now, key |-> key]
\* auth.py 16-31: one secret for the life of the process
ProcessSecret == "secret"
Rejected == [accepted |-> FALSE, uid |-> 0]
Accepted(uid) == [accepted |-> TRUE, uid |-> uid]

\* s.loads(token, max_age): BadSignature under another key, SignatureExpired
\* past the age
loads(token, max_age, now) ==
  IF token.key # ProcessSecret THEN Raise("BadSignature")
  ELSE IF now - token.ts > max_age THEN Raise("SignatureExpired")
  ELSE Ok(token)

\* auth.py 73-79
create_token(user_id, now) == SignedToken(user_id, "", now, ProcessSecret)
\* auth.py 97-100
create_reset_token(user_id, now) == SignedToken(user_id, "reset", now, ProcessSecret)

\* auth.py 82-94
verify_token(token, now) ==
  LET data == loads(token, TokenMaxAge, now)
  IN IF data.raised THEN Rejected ELSE Accepted(data.val.uid)

\* auth.py 103-113
verify_reset_token(token, now) ==
  LET data == loads(token, ResetTokenMaxAge, now)
  IN IF data.raised THEN Rejected
     ELSE IF data.val.kind # "reset" THEN Rejected
     ELSE Accepted(data.val.uid)

Uids == 1..MaxUid
Sleeps == {1, ResetTokenMaxAge, TokenMaxAge}
NoToken == SignedToken(0, "", 0, "")
ForgedTokens == {SignedToken(u, k, 0, "other") : u \in Uids, k \in {"", "reset"}}

InitAuth ==
  /\ check = [on |-> TRUE, now |-> 0, sleeps |-> 0, issued |-> {},
              last |-> [op |-> "", by |-> "", token |-> NoToken, result |-> Rejected]]
  /\ args = Args("flask", NoneContract, PlainTask, FALSE, NoText, NoText)
  /\ call = FreshCall
  /\ files = <<>>
  /\ clock = 0
  /\ prev = NoArchive
  /\ server = NoServer

\* main.py 124: a login issues a session token
IssueToken ==
  /\ check.on
  /\ Cardinality(check.issued) < MaxTokens
  /\ \E u \in Uids :
       LET t == create_token(u, check.now)
       IN check' = [check EXCEPT !.issued = @ \cup {[by |-> "create_token", token |-> t]},
                      !.last = [op |-> "create_token", by |-> "create_token", token |-> t,
                                result |-> Rejected]]
  /\ UNCHANGED <<args, call, files, clock, prev, server>>

\* main.py 163: a forgotten password issues a reset token
IssueResetToken ==
  /\ check.on
  /\ Cardinality(check.issued) < MaxTokens
  /\ \E u \in Uids :
       LET t == create_reset_token(u, check.now)
       IN check' = [check EXCEPT !.issued = @ \cup {[by |-> "create_reset_token", token |-> t]},
                      !.last = [op |-> "create_reset_token", by |-> "create_reset_token",
                                token |-> t, result |-> Rejected]]
  /\ UNCHANGED <<args, call, files, clock, prev, server>>

\* what a client can present: a token it was given, or one signed elsewhere
Presented == check.issued \cup {[by |-> "forged", token |-> t] : t \in ForgedTokens}

\* main.py 58-74: get_bearer_user_id hands the presented token to verify_token
VerifyBearer ==
  /\ check.on
  /\ \E p \in Presented :
       check' = [check EXCEPT !.last = [op |-> "verify_token", by |-> p.by, token |-> p.token,
                                        result |-> verify_token(p.token, check.now)]]
  /\ UNCHANGED <<args, call, files, clock, prev, server>>

\* main.py 186: the reset form hands the presented token to verify_reset_token
VerifyReset ==
  /\ check.on
  /\ \E p \in Presented :
       check' = [check EXCEPT !.last = [op |-> "verify_reset_token", by |-> p.by, token |-> p.token,
                                        result |-> verify_reset_token(p.token, check.now)]]
  /\ UNCHANGED <<args, call, files, clock, prev, server>>

\* time passes between two requests
Sleep ==
  /\ check.on
  /\ check.sleeps < MaxSleeps
  /\ \E d \in Sleeps : check' = [check EXCEPT !.now = @ + d, !.sleeps = @ + 1]
  /\ UNCHANGED <<args, call, files, clock, prev, server>>

NextAuth == IssueToken \/ IssueResetToken \/ VerifyBearer \/ VerifyReset \/ Sleep

SpecAuth == InitAuth /\ [][NextAuth]_vars

\* a session token never passes as a reset token
SessionTokenNoReset ==
  (check.on /\ check.last.op = "verify_reset_token" /\ check.last.by = "create_token")
    => ~check.last.result.accepted

\* C30: token kinds are not interchangeable: verify_token never accepts a
\* token issued by create_reset_token, and verify_reset_token never accepts
\* a token issued by create_token, for every user id and every order of
\* issuing and verifying in one process.
C30_TokenKindsNotInterchangeable ==
  check.on =>
    /\ (check.last.op = "verify_token" /\ check.last.by = "create_reset_token")
         => ~check.last.result.accepted
    /\ (check.last.op = "verify_reset_token" /\ check.last.by = "create_token")
         => ~check.last.result.accepted

====
